---- MODULE Spec2Model ----
(***************************************************************************)
(* AgriAI backend: the two analysis pipelines of src/app.py                *)
(* (analyze_text, analyze_audio) over the provider gateway of              *)
(* src/services (translate_text, transcribe_audio, analyze_sentiment,      *)
(* analyze_entities).                                                      *)
(*                                                                         *)
(* A text is a sequence of tokens (short strings); " " is the whitespace   *)
(* token.  Python's None is the record None.  The provider is remote and   *)
(* opaque: each of its answers is drawn from a small set, and it may       *)
(* raise, or answer only after the caller's timeout has fired.             *)
(*                                                                         *)
(* One request is in progress at a time; `h` is the frame of its handler   *)
(* coroutine.  An action is one run of the handler between two suspension  *)
(* points (await), as the event loop executes it.                          *)
(* asyncio semantics are those of CPython >= 3.8 (CancelledError is not an *)
(* Exception).                                                             *)
(***************************************************************************)
EXTENDS Integers, Sequences, FiniteSets, TLC

(* ------------------------------ bounds --------------------------------- *)

\* number of requests the server accepts in one behaviour
MaxRequests == 2

\* longest per-sentence label list the provider returns for one sentiment call
MaxSentences == 2

\* longest entity list the provider returns for one entities call
MaxEntities == 2

\* largest max_retries a direct caller passes to analyze_sentiment / analyze_entities
MaxRetries == 3

\* longest per-sentence label list answered to analyze_sentiment called on its own
MaxLabels == 5

\* longest entity list handed to format_analysis_results called on its own
MaxFormatEntities == 12

\* number of requests the event loop handles at the same time
MaxConcurrent == 2

(* --------------------------- program constants ------------------------- *)

None == [none |-> TRUE]

REPLACEMENT_SENTENCE ==
    <<"The analysis service is not responding", ". ", "Please try again later", ".">>

NO_PATTERNS_SENTENCE ==
    <<"Analysis completed", ". ", "No significant patterns detected", ".">>

LANGUAGE_MAP ==
    [n \in {"English", "isiZulu", "isiXhosa", "Kiswahili", "Afrikaans",
            "Southern Sotho", "Northern Sotho", "Swati", "Tsonga", "Tswana",
            "Nigerian Pidgin", "Portuguese"} |->
        CASE n = "English"         -> "eng_Latn"
          [] n = "isiZulu"         -> "zul_Latn"
          [] n = "isiXhosa"        -> "xho_Latn"
          [] n = "Kiswahili"       -> "swh_Latn"
          [] n = "Afrikaans"       -> "afr_Latn"
          [] n = "Southern Sotho"  -> "sot_Latn"
          [] n = "Northern Sotho"  -> "nso_Latn"
          [] n = "Swati"           -> "ssw_Latn"
          [] n = "Tsonga"          -> "tso_Latn"
          [] n = "Tswana"          -> "tsn_Latn"
          [] n = "Nigerian Pidgin" -> "eng_Latn"
          [] n = "Portuguese"      -> "eng_Latn"]

STT_LANGUAGE_MAP ==
    [n \in {"English", "isiZulu", "isiXhosa", "Kiswahili", "Afrikaans",
            "Southern Sotho", "Nigerian Pidgin", "Portuguese"} |->
        CASE n = "English"         -> "eng"
          [] n = "isiZulu"         -> "zul"
          [] n = "isiXhosa"        -> "eng"
          [] n = "Kiswahili"       -> "eng"
          [] n = "Afrikaans"       -> "afr"
          [] n = "Southern Sotho"  -> "sot"
          [] n = "Nigerian Pidgin" -> "eng"
          [] n = "Portuguese"      -> "eng"]

\* mutant: Nigerian Pidgin has a code of its own
get_language_code_pidgin_own(language) ==
    IF language = "Nigerian Pidgin" THEN "pcm_Latn"
    ELSE IF language \in DOMAIN LANGUAGE_MAP THEN LANGUAGE_MAP[language] ELSE "eng_Latn"

get_language_code(language) ==
    IF language \in DOMAIN LANGUAGE_MAP THEN LANGUAGE_MAP[language] ELSE "eng_Latn"

\* mutant: the speech default is the English code of the translation map
get_stt_language_code_translation_default(language) ==
    IF language \in DOMAIN STT_LANGUAGE_MAP THEN STT_LANGUAGE_MAP[language] ELSE "eng_Latn"

get_stt_language_code(language) ==
    IF language \in DOMAIN STT_LANGUAGE_MAP THEN STT_LANGUAGE_MAP[language] ELSE "eng"

(* ------------------------------- texts --------------------------------- *)

Whitespace == {" "}

RECURSIVE LStrip(_)
LStrip(t) ==
    IF t = <<>> THEN <<>>
    ELSE IF Head(t) \in Whitespace THEN LStrip(Tail(t)) ELSE t

RECURSIVE RStrip(_)
RStrip(t) ==
    IF t = <<>> THEN <<>>
    ELSE IF t[Len(t)] \in Whitespace THEN RStrip(SubSeq(t, 1, Len(t) - 1)) ELSE t

\* str.strip()
Strip(t) == RStrip(LStrip(t))

(* ------------------------ inputs of the model -------------------------- *)

\* request bodies of analyze-text
Contents == { <<>>, <<" ">>, <<"Harvest was excellent this year">> }

\* language names a caller may send: every registered name and one unknown
RequestLanguages == DOMAIN LANGUAGE_MAP \cup {"Klingon"}

AudioFiles == {"clip.wav"}

\* texts the provider returns from translate
ProviderTexts == { <<"translated">>, <<" ">> }

\* payloads client.translate returns
TranslateAnswers ==
    { [translation |-> <<[translated_text |-> t]>>] : t \in ProviderTexts \cup {<<>>} }
      \cup { [translation |-> <<>>], [message |-> "no translation"] }

SentimentLabels == {"positive", "negative", "neutral"}

RECURSIVE SeqsUpTo(_, _)
SeqsUpTo(S, n) ==
    IF n = 0 THEN { <<>> }
    ELSE LET shorter == SeqsUpTo(S, n - 1)
         IN  shorter \cup { Append(s, x) : s \in shorter, x \in S }

\* payloads client.get_sentiments returns: one labelled entry per sentence
SentimentAnswers ==
    { [sentiments |-> ls] : ls \in SeqsUpTo(SentimentLabels, MaxSentences) }

EntityPool == { [entity |-> "location", word |-> "Lagos"] }

\* payloads client.get_entities returns
EntitiesAnswers ==
    { [entities |-> es] : es \in SeqsUpTo(EntityPool, MaxEntities) }

\* texts and language codes a direct caller passes to the gateway
GatewayTexts == Contents \cup { <<"Is the soil dry", "?">> }

GatewayCodes == {"eng_Latn", "zul_Latn", "fra_Latn"}

\* language names passed to get_language_code / get_stt_language_code
GatewayNames == DOMAIN LANGUAGE_MAP \cup {"Klingon", "english", ""}

\* payloads client.get_sentiments returns to analyze_sentiment called on its own
GatewaySentimentAnswers ==
    { [sentiments |-> ls] : ls \in SeqsUpTo(SentimentLabels, MaxLabels) }
      \cup { [message |-> "no sentiments"] }

\* payloads client.transcribe returns ("" stands for a missing id key)
TranscribeAnswers ==
    { [transcription_text |-> t, id |-> i] :
        t \in { <<>>, <<"The maize is dry">> }, i \in {"", "prov-1"} }


(* ------------------------------- state --------------------------------- *)

VARIABLES
    token,      \* LELAPA_TOKEN is set (read once from the environment at import)
    served,     \* requests accepted so far
    request,    \* the request in progress: endpoint, content, language, file
    h,          \* the handler's frame: locals, position, awaited calls, response, call log
    g,          \* the frame of a gateway function called on its own
    fm,         \* the frame of format_analysis_results called on its own
    reqs,       \* the requests handled concurrently, one per slot
    answers,    \* what the provider answers to each call of each of them, and when
    hs,         \* the frames of their handlers
    arrived     \* their calls whose worker thread has ended with the result undelivered

\* the state of the concurrent handlers
concurrent == <<reqs, answers, hs, arrived>>

vars == <<token, served, request, h, g, fm, reqs, answers, hs, arrived>>

NoRequest == [endpoint |-> "none", content |-> <<>>, language |-> "", file |-> ""]

NoTask == [state |-> "none", result |-> None, attempt |-> 0]

\* frame of a handler that has not started
IdleFrame ==
    [pc                   |-> "idle",
     source_lang_code     |-> "",
     english_text         |-> <<>>,
     timed_out            |-> FALSE,
     sentiment_result     |-> None,
     entities_result      |-> None,
     analysis_text        |-> <<>>,
     response_text        |-> <<>>,
     transcription_result |-> None,
     translate_in         |-> "none",
     translate_back       |-> "none",
     translate_call       |-> "none",
     sentiment_task       |-> NoTask,
     entities_task        |-> NoTask,
     error                |-> None,
     response             |-> None,
     calls                |-> <<>>]

\* frame of a gateway function that has not been called: its arguments, the
\* loop variable `attempt`, what it did (SDK calls submitted, their ends, sleeps
\* with their wait_time) and how it ended (return value or raised error)
IdleCall ==
    [pc          |-> "idle",
     fn          |-> "",
     text        |-> <<>>,
     source_lang |-> "",
     target_lang |-> "",
     language    |-> "",
     max_retries |-> 0,
     attempt     |-> 0,
     events      |-> <<>>,
     outcome     |-> None]

\* frame of the formatter before it is called
IdleFormat ==
    [pc |-> "idle", sentiment_result |-> None, entities_result |-> None, text |-> <<>>]

\* the handler coroutines the event loop runs at the same time
Slots == 1..MaxConcurrent

\* the calls a text request awaits
AwaitedCalls == {"translate_in", "sentiment", "entities", "translate_back"}

\* the provider's answer to each call of one request: the payload, and whether
\* it comes only after the caller's 3 s timeout (late)
NoAnswers == [c \in AwaitedCalls |-> [data |-> None, late |-> FALSE]]

\* one entry of the call log: a gateway function or the formatter entered,
\* translate_text returning (".return"), an SDK call submitted to a worker
\* thread ("sdk."), or that call raising or returning within the wait.  For transcription source_lang
\* carries the language name (gateway) or the speech code (SDK), and the entry
\* of client.transcribe returning carries the id of the payload as target_lang.
Call(op, text, src, tgt) ==
    [op |-> op, text |-> text, source_lang |-> src, target_lang |-> tgt]

HTTPException(status_code, detail) == [status |-> status_code, detail |-> detail]

(* ------------------------- provider gateway ---------------------------- *)

\* mutant: equal codes are sent to the provider like any other pair
translate_text_entry_no_shortcut(text, source_lang, target_lang) ==
    IF ~token THEN [kind |-> "raise", status_code |-> 500]
    ELSE [kind |-> "remote"]

\* translate_text up to its SDK call: what it does without the provider
translate_text_entry(text, source_lang, target_lang) ==
    IF ~token THEN [kind |-> "raise", status_code |-> 500]
    ELSE IF source_lang = target_lang THEN [kind |-> "return", value |-> text]
    ELSE [kind |-> "remote"]

\* translate_text after client.translate returned data
translate_text_parse(text, data) ==
    IF "translation" \in DOMAIN data /\ Len(data.translation) > 0
    THEN LET translated == data.translation[1].translated_text
         IN  IF translated # <<>> THEN translated ELSE text
    ELSE text

\* translate_text after client.translate raised: the except clause returns text
translate_text_except(text) == text

Punctuation == {".", "!", "?"}

\* text_to_analyze of analyze_sentiment for a text that does not strip to empty
sentiment_text_to_analyze(text) ==
    LET t == Strip(text)
    IN  IF t[Len(t)] \in Punctuation THEN t ELSE Append(t, ".")

\* analyze_sentiment / analyze_entities up to the SDK call
analyze_entry(text) ==
    IF ~token THEN [kind |-> "return", value |-> None]
    ELSE IF Strip(text) = <<>> THEN [kind |-> "return", value |-> None]
    ELSE [kind |-> "remote"]

RECURSIVE Count(_, _)
Count(labels, l) ==
    IF labels = <<>> THEN 0
    ELSE (IF Head(labels) = l THEN 1 ELSE 0) + Count(Tail(labels), l)

\* mutant: a tie at the top goes to the first label tested
overall_sentiment_ties_win(positive_count, negative_count, neutral_count) ==
    IF positive_count >= negative_count /\ positive_count >= neutral_count THEN "positive"
    ELSE IF negative_count >= positive_count /\ negative_count >= neutral_count THEN "negative"
    ELSE "neutral"

overall_sentiment(positive_count, negative_count, neutral_count) ==
    IF positive_count > negative_count /\ positive_count > neutral_count THEN "positive"
    ELSE IF negative_count > positive_count /\ negative_count > neutral_count THEN "negative"
    ELSE "neutral"

\* analyze_sentiment after client.get_sentiments returned data
analyze_sentiment_parse(data) ==
    IF "sentiments" \in DOMAIN data /\ Len(data.sentiments) > 0
    THEN LET sentiment_labels == data.sentiments
             positive_count == Count(sentiment_labels, "positive")
             negative_count == Count(sentiment_labels, "negative")
             neutral_count  == Count(sentiment_labels, "neutral")
         IN  [overall_sentiment |-> overall_sentiment(positive_count, negative_count, neutral_count),
              positive_count    |-> positive_count,
              negative_count    |-> negative_count,
              neutral_count     |-> neutral_count,
              full_data         |-> data]
    ELSE None

\* mutant: a payload without entities gives an absent result
analyze_entities_parse_empty_absent(data) ==
    LET entities == IF "entities" \in DOMAIN data THEN data.entities ELSE <<>>
    IN  IF entities = <<>> THEN None
        ELSE [entities |-> entities, entity_count |-> Len(entities), full_data |-> data]

\* analyze_entities after client.get_entities returned data
analyze_entities_parse(data) ==
    LET entities == IF "entities" \in DOMAIN data THEN data.entities ELSE <<>>
    IN  [entities |-> entities, entity_count |-> Len(entities), full_data |-> data]

\* analyze_sentiment / analyze_entities after the SDK call raised on attempt
\* `attempt` (0-based) of max_retries: retry, or give up with None
analyze_except(attempt, max_retries) ==
    IF attempt < max_retries - 1 THEN [kind |-> "retry"]
    ELSE [kind |-> "return", value |-> None]

\* mutant: the exponent is the attempt itself
backoff_wait_from_two(attempt) == 2 ^ attempt

\* wait_time of the sleep that opens iteration `attempt` (> 0) of the retry loop
backoff_wait(attempt) == 2 ^ (attempt - 1)

\* a gateway function returns / raises: the end of its frame
call_return(c, value) == [c EXCEPT !.pc = "done", !.outcome = [kind |-> "return", value |-> value]]

call_raise(c, status_code) ==
    [c EXCEPT !.pc = "done", !.outcome = [kind |-> "raise", status_code |-> status_code]]

\* what a gateway function did, in order: "sdk" (call submitted to a worker
\* thread), "returned" / "raised" (that call ended), "sleep" (asyncio.sleep)
Event(c, ev, wait_time) == [c EXCEPT !.events = Append(@, [ev |-> ev, wait_time |-> wait_time])]

\* translate_text from its entry to its await, or to its end
translate_text_begin(c) ==
    LET entry == translate_text_entry(c.text, c.source_lang, c.target_lang)
    IN  CASE entry.kind = "raise"  -> call_raise(c, entry.status_code)
          [] entry.kind = "return" -> call_return(c, entry.value)
          [] entry.kind = "remote" -> [Event(c, "sdk", 0) EXCEPT !.pc = "sdk"]

\* the top of `for attempt in range(max_retries)` at c.attempt, up to the next
\* await; past the last iteration the function falls through to `return None`
analyze_iteration(c) ==
    IF c.attempt >= c.max_retries THEN call_return(c, None)
    ELSE IF c.attempt > 0
    THEN [Event(c, "sleep", backoff_wait(c.attempt)) EXCEPT !.pc = "sleep"]
    ELSE [Event(c, "sdk", 0) EXCEPT !.pc = "sdk"]

\* asyncio.sleep(wait_time) is over: the SDK call of this iteration is submitted
analyze_slept(c) == [Event(c, "sdk", 0) EXCEPT !.pc = "sdk"]

\* analyze_sentiment / analyze_entities from the entry to the first await, or to the end
analyze_call_begin(c) ==
    LET entry == analyze_entry(c.text)
    IN  IF entry.kind = "return" THEN call_return(c, entry.value)
        ELSE analyze_iteration([c EXCEPT !.attempt = 0])

\* the SDK call of this iteration returned data
analyze_call_returned(c, data) ==
    call_return(Event(c, "returned", 0),
                IF c.fn = "analyze_sentiment" THEN analyze_sentiment_parse(data)
                ELSE analyze_entities_parse(data))

\* the SDK call of this iteration raised: the except clause
analyze_call_raised(c) ==
    LET c1 == Event(c, "raised", 0)
        e  == analyze_except(c.attempt, c.max_retries)
    IN  IF e.kind = "retry" THEN analyze_iteration([c1 EXCEPT !.attempt = @ + 1])
        ELSE call_return(c1, e.value)

\* mutant: the handlers leave max_retries to its default
HANDLER_MAX_RETRIES_DEFAULT == 3

\* max_retries the two handlers pass to analyze_sentiment / analyze_entities
HANDLER_MAX_RETRIES == 1

\* transcribe_audio up to its SDK call
transcribe_audio_entry(language) ==
    IF ~token THEN [kind |-> "raise", status_code |-> 500]
    ELSE IF language \notin DOMAIN STT_LANGUAGE_MAP THEN [kind |-> "raise", status_code |-> 400]
    ELSE [kind |-> "remote", lang_code |-> STT_LANGUAGE_MAP[language]]

\* mutant: an empty transcript is returned like any other
transcribe_audio_parse_no_empty_check(data) ==
    [kind |-> "return",
     value |-> [id |-> IF data.id # "" THEN data.id ELSE "trans_<urandom>",
                transcription_text |-> data.transcription_text]]

\* mutant: the id is always generated, the provider's is ignored
transcribe_audio_parse_fresh_id(data) ==
    IF data.transcription_text = <<>>
    THEN [kind |-> "raise", status_code |-> 500]
    ELSE [kind |-> "return",
          value |-> [id |-> "trans_<urandom>",
                     transcription_text |-> data.transcription_text]]

\* transcribe_audio after client.transcribe returned data
transcribe_audio_parse(data) ==
    IF data.transcription_text = <<>>
    THEN [kind |-> "raise", status_code |-> 500]
    ELSE [kind |-> "return",
          value |-> [id |-> IF data.id # "" THEN data.id ELSE "trans_<urandom>",
                     transcription_text |-> data.transcription_text]]

\* transcribe_audio after client.transcribe (or reading the upload) raised
transcribe_audio_except == [kind |-> "raise", status_code |-> 500]

(* -------------------------- result formatter --------------------------- *)

\* mutant: the slice keeps every entity
FORMAT_ENTITY_LIMIT_NONE == MaxFormatEntities + 1

\* entities[:10]
FORMAT_ENTITY_LIMIT == 10

RECURSIVE Join(_, _)
\* sep.join(parts) for a sequence of texts
Join(parts, sep) ==
    IF parts = <<>> THEN <<>>
    ELSE IF Len(parts) = 1 THEN parts[1]
    ELSE parts[1] \o sep \o Join(Tail(parts), sep)

RECURSIVE entity_list(_)
\* the rendered entities, those with an empty word left out
entity_list(entities) ==
    IF entities = <<>> THEN <<>>
    ELSE LET entity == Head(entities)
         IN  (IF entity.word # ""
              THEN << <<entity.word, " (", entity.entity, ")">> >>
              ELSE <<>>) \o entity_list(Tail(entities))

\* mutant: the entities part is appended before the sentiment part
format_analysis_results_entities_first(sentiment_result, entities_result) ==
    LET sentiment_part ==
            IF sentiment_result # None /\ "overall_sentiment" \in DOMAIN sentiment_result
            THEN << <<"Sentiment: ", sentiment_result.overall_sentiment>> >>
            ELSE <<>>
        listed ==
            IF entities_result # None /\ "entities" \in DOMAIN entities_result
               /\ Len(entities_result.entities) > 0
            THEN LET n == IF Len(entities_result.entities) < FORMAT_ENTITY_LIMIT
                          THEN Len(entities_result.entities) ELSE FORMAT_ENTITY_LIMIT
                 IN  entity_list(SubSeq(entities_result.entities, 1, n))
            ELSE <<>>
        entities_part ==
            IF listed # <<>>
            THEN << <<"Entities found: ">> \o Join(listed, <<", ">>) >>
            ELSE <<>>
        parts == entities_part \o sentiment_part
    IN  IF parts = <<>> THEN NO_PATTERNS_SENTENCE
        ELSE Join(parts, <<". ">>) \o <<".">>

format_analysis_results(sentiment_result, entities_result) ==
    LET sentiment_part ==
            IF sentiment_result # None /\ "overall_sentiment" \in DOMAIN sentiment_result
            THEN << <<"Sentiment: ", sentiment_result.overall_sentiment>> >>
            ELSE <<>>
        listed ==
            IF entities_result # None /\ "entities" \in DOMAIN entities_result
               /\ Len(entities_result.entities) > 0
            THEN LET n == IF Len(entities_result.entities) < FORMAT_ENTITY_LIMIT
                          THEN Len(entities_result.entities) ELSE FORMAT_ENTITY_LIMIT
                 IN  entity_list(SubSeq(entities_result.entities, 1, n))
            ELSE <<>>
        entities_part ==
            IF listed # <<>>
            THEN << <<"Entities found: ">> \o Join(listed, <<", ">>) >>
            ELSE <<>>
        parts == sentiment_part \o entities_part
    IN  IF parts = <<>> THEN NO_PATTERNS_SENTENCE
        ELSE Join(parts, <<". ">>) \o <<".">>

(* ------------------- handler segments (frame -> frame) ----------------- *)
(* Each operator is the code the event loop runs without suspending: it    *)
(* takes the frame at a point of the handler and returns the frame at the  *)
(* next await, or at the return/raise that ends the request.               *)

IsText(req) == req.endpoint = "analyze-text"

Log(f, op, text, src, tgt) == [f EXCEPT !.calls = Append(@, Call(op, text, src, tgt))]

\* mutant: the audio response carries the translated text as its transcript
Respond_translated_transcript(f, req) ==
    [f EXCEPT
       !.pc = "done",
       !.response =
          IF IsText(req)
          THEN [status    |-> 200,
                id        |-> "analysis_<urandom>",
                content   |-> f.response_text,
                language  |-> req.language,
                sentiment |-> f.sentiment_result,
                entities  |-> f.entities_result]
          ELSE [status             |-> 200,
                id                 |-> f.transcription_result.id,
                transcription_text |-> f.response_text,
                analysis           |-> f.response_text,
                language           |-> req.language,
                sentiment          |-> f.sentiment_result,
                entities           |-> f.entities_result]]

\* return AnalysisResponse(...) / TranscriptionResponse(...)
Respond(f, req) ==
    [f EXCEPT
       !.pc = "done",
       !.response =
          IF IsText(req)
          THEN [status    |-> 200,
                id        |-> "analysis_<urandom>",
                content   |-> f.response_text,
                language  |-> req.language,
                sentiment |-> f.sentiment_result,
                entities  |-> f.entities_result]
          ELSE [status             |-> 200,
                id                 |-> f.transcription_result.id,
                transcription_text |-> f.english_text,
                analysis           |-> f.response_text,
                language           |-> req.language,
                sentiment          |-> f.sentiment_result,
                entities           |-> f.entities_result]]

\* raise HTTPException(...) out of the handler
Reject(f, status_code, detail) ==
    [f EXCEPT !.pc = "done", !.response = HTTPException(status_code, detail)]

\* the handler's last clause: except Exception -> HTTPException(500)
unexpected_error(f) == Reject(f, 500, "Analysis failed")

\* mutant: the content is tested without strip()
analyze_text_validate_no_strip(req) ==
    IF req.content = <<>>
    THEN HTTPException(400, "Content cannot be empty")
    ELSE IF req.language \notin DOMAIN LANGUAGE_MAP
    THEN HTTPException(400, "Unsupported language")
    ELSE IF ~token
    THEN HTTPException(503, "Lelapa.ai API token not configured")
    ELSE None

\* mutant: the token is not tested
analyze_text_validate_no_token_check(req) ==
    IF Strip(req.content) = <<>>
    THEN HTTPException(400, "Content cannot be empty")
    ELSE IF req.language \notin DOMAIN LANGUAGE_MAP
    THEN HTTPException(400, "Unsupported language")
    ELSE None

\* the checks analyze_text makes before its try block: the rejection, or None
analyze_text_validate(req) ==
    IF Strip(req.content) = <<>>
    THEN HTTPException(400, "Content cannot be empty")
    ELSE IF req.language \notin DOMAIN LANGUAGE_MAP
    THEN HTTPException(400, "Unsupported language")
    ELSE IF ~token
    THEN HTTPException(503, "Lelapa.ai API token not configured")
    ELSE None

\* mutant: the token is tested before the language
analyze_audio_validate_token_first(req) ==
    IF ~token
    THEN HTTPException(503, "Lelapa.ai API token not configured")
    ELSE IF req.language \notin DOMAIN STT_LANGUAGE_MAP
    THEN HTTPException(400, "Unsupported language")
    ELSE None

\* the checks analyze_audio makes before its try block: the rejection, or None
analyze_audio_validate(req) ==
    IF req.language \notin DOMAIN STT_LANGUAGE_MAP
    THEN HTTPException(400, "Unsupported language")
    ELSE IF ~token
    THEN HTTPException(503, "Lelapa.ai API token not configured")
    ELSE None

\* the code of the back-translation target
back_target_code(f, req) ==
    IF IsText(req) THEN f.source_lang_code ELSE get_language_code(req.language)

\* mutant: Step 4 is skipped by code, as Step 1 is, not by name
translate_back_needed_by_code(language, target_lang_code) == target_lang_code # "eng_Latn"

\* `if request.language != "English"` of Step 4
translate_back_needed(language, target_lang_code) == language # "English"

\* mutant: no except clause for asyncio.TimeoutError
translate_back_result_timeout_escapes(outcome, value, analysis_text) ==
    CASE outcome = "returned" -> [kind |-> "value", value |-> value]
      [] outcome = "timeout"  -> [kind |-> "raise"]
      [] outcome = "raised"   -> [kind |-> "value", value |-> analysis_text]

\* try/except around Step 4's wait_for: the response text, or what escapes
translate_back_result(outcome, value, analysis_text) ==
    CASE outcome = "returned" -> [kind |-> "value", value |-> value]
      [] outcome = "timeout"  -> [kind |-> "value", value |-> analysis_text]
      [] outcome = "raised"   -> [kind |-> "value", value |-> analysis_text]

\* Step 4 once wait_for(translate_text_service(...)) is over with `outcome`
translate_back_end(f, req, outcome, value) ==
    LET r  == translate_back_result(outcome, value, f.analysis_text)
        f1 == [f EXCEPT
                 !.translate_back = outcome,
                 !.translate_call = IF @ = "running" THEN "done" ELSE @,
                 !.calls = IF outcome = "returned"
                           THEN Append(@, Call("translate_text.return", value, "", ""))
                           ELSE @]
    IN  IF r.kind = "raise" THEN unexpected_error(f1)
        ELSE Respond([f1 EXCEPT !.response_text = r.value], req)

\* Step 4 up to its await
translate_back_begin(f, req) ==
    LET f1 == [f EXCEPT !.response_text = f.analysis_text]
        target == back_target_code(f, req)
    IN  IF translate_back_needed(req.language, target)
        THEN LET entry == translate_text_entry(f.analysis_text, "eng_Latn", target)
                 f2 == Log(f1, "translate_text", f.analysis_text, "eng_Latn", target)
             IN  CASE entry.kind = "return" ->
                        translate_back_end(f2, req, "returned", entry.value)
                   [] entry.kind = "raise" ->
                        translate_back_end(f2, req, "raised", <<>>)
                   [] entry.kind = "remote" ->
                        [Log(f2, "sdk.translate", f.analysis_text, "eng_Latn", target)
                           EXCEPT !.pc = "translate_back", !.translate_call = "running"]
        ELSE Respond([f1 EXCEPT !.translate_back = "skipped"], req)

\* mutant: the formatter runs whether or not the step timed out
format_step_ignores_timeout(f, req) ==
    translate_back_begin(
        [Log(f, "format_analysis_results", <<>>, "", "")
           EXCEPT !.analysis_text =
              format_analysis_results(f.sentiment_result, f.entities_result)],
        req)

\* Step 3: format, or the replacement sentence after a timeout
format_step(f, req) ==
    translate_back_begin(
        IF f.timed_out
        THEN [f EXCEPT !.analysis_text = REPLACEMENT_SENTENCE]
        ELSE [Log(f, "format_analysis_results", <<>>, "", "")
                EXCEPT !.analysis_text =
                   format_analysis_results(f.sentiment_result, f.entities_result)],
        req)

\* mutant: the pair gather returns is unpacked in the wrong order
analyze_returned_swapped(f, req) ==
    format_step([f EXCEPT !.sentiment_result = f.entities_task.result,
                          !.entities_result  = f.sentiment_task.result],
                req)

\* wait_for(gather(...)) returned: both tasks are done
analyze_returned(f, req) ==
    format_step([f EXCEPT !.sentiment_result = f.sentiment_task.result,
                          !.entities_result  = f.entities_task.result],
                req)

\* mutant: after a timeout the result of a task already done is kept
analyze_timed_out_keeps_partial(f, req) ==
    format_step([f EXCEPT !.timed_out = TRUE,
                          !.sentiment_result = f.sentiment_task.result,
                          !.entities_result  = f.entities_task.result],
                req)

\* wait_for(gather(...)) raised TimeoutError
analyze_timed_out(f, req) ==
    format_step([f EXCEPT !.timed_out = TRUE], req)

\* run_sentiment / run_entities from their start to the SDK call
task_begin(text) ==
    LET entry == analyze_entry(text)
    IN  IF entry.kind = "return"
        THEN [state |-> "done", result |-> entry.value, attempt |-> 0]
        ELSE [state |-> "running", result |-> None, attempt |-> 0]

\* mutant: the two analyses are awaited one after the other; only the first is
\* started here
analyze_begin_sequential(f, req) ==
    LET st == task_begin(f.english_text)
        f1 == Log(f, "analyze_sentiment", f.english_text, "", "")
        f2 == IF st.state = "running"
              THEN Log(f1, "sdk.get_sentiments",
                       sentiment_text_to_analyze(f.english_text), "", "")
              ELSE f1
    IN  [f2 EXCEPT !.pc = "analyze",
                   !.timed_out = FALSE,
                   !.sentiment_result = None,
                   !.entities_result = None,
                   !.sentiment_task = st,
                   !.entities_task = NoTask]

\* Step 2 up to its await: gather starts both tasks
analyze_begin(f, req) ==
    LET st == task_begin(f.english_text)
        et == task_begin(f.english_text)
        f1 == Log(f, "analyze_sentiment", f.english_text, "", "")
        f2 == IF st.state = "running"
              THEN Log(f1, "sdk.get_sentiments",
                       sentiment_text_to_analyze(f.english_text), "", "")
              ELSE f1
        f3 == Log(f2, "analyze_entities", f.english_text, "", "")
        f4 == IF et.state = "running"
              THEN Log(f3, "sdk.get_entities", Strip(f.english_text), "", "")
              ELSE f3
        f5 == [f4 EXCEPT !.timed_out = FALSE,
                         !.sentiment_result = None,
                         !.entities_result = None,
                         !.sentiment_task = st,
                         !.entities_task = et]
    IN  IF st.state = "done" /\ et.state = "done"
        THEN analyze_returned(f5, req)
        ELSE [f5 EXCEPT !.pc = "analyze"]

\* mutant: after a timeout english_text is left empty
translate_in_result_timeout_empty(outcome, value, content) ==
    CASE outcome = "returned" -> [kind |-> "value", value |-> value]
      [] outcome = "timeout"  -> [kind |-> "value", value |-> <<>>]
      [] outcome = "raised"   -> [kind |-> "value", value |-> content]

\* try/except around Step 1's wait_for: english_text, or what escapes
translate_in_result(outcome, value, content) ==
    CASE outcome = "returned" -> [kind |-> "value", value |-> value]
      [] outcome = "timeout"  -> [kind |-> "value", value |-> content]
      [] outcome = "raised"   -> [kind |-> "value", value |-> content]

\* Step 1 once wait_for(translate_text_service(...)) is over with `outcome`
translate_in_end(f, req, outcome, value) ==
    LET r  == translate_in_result(outcome, value, req.content)
        f1 == [f EXCEPT
                 !.translate_in   = outcome,
                 !.translate_call = IF @ = "running" THEN "done" ELSE @,
                 !.calls = IF outcome = "returned"
                           THEN Append(@, Call("translate_text.return", value, "", ""))
                           ELSE @]
    IN  IF r.kind = "raise" THEN unexpected_error(f1)
        ELSE analyze_begin([f1 EXCEPT !.english_text = r.value], req)

\* analyze_text from its entry to its first await
analyze_text_begin(req) ==
    LET rejection == analyze_text_validate(req)
    IN  IF rejection # None
        THEN Reject(IdleFrame, rejection.status, rejection.detail)
        ELSE LET source_lang_code == get_language_code(req.language)
                 f1 == [IdleFrame EXCEPT !.source_lang_code = source_lang_code,
                                         !.english_text = req.content]
             IN  IF source_lang_code # "eng_Latn"
                 THEN LET entry == translate_text_entry(req.content, source_lang_code, "eng_Latn")
                          f2 == Log(f1, "translate_text", req.content,
                                    source_lang_code, "eng_Latn")
                      IN  CASE entry.kind = "return" ->
                                 translate_in_end(f2, req, "returned", entry.value)
                            [] entry.kind = "raise" ->
                                 translate_in_end(f2, req, "raised", <<>>)
                            [] entry.kind = "remote" ->
                                 [Log(f2, "sdk.translate", req.content,
                                      source_lang_code, "eng_Latn")
                                    EXCEPT !.pc = "translate_in", !.translate_call = "running"]
                 ELSE analyze_begin([f1 EXCEPT !.translate_in = "skipped"], req)

\* except TranscriptionError as e: raise HTTPException(status_code=e.status_code, ...)
transcription_error_status(e) == e.status_code

\* analyze_audio once transcribe_audio is over with `outcome`
transcribe_end(f, req, outcome) ==
    IF outcome.kind = "raise"
    THEN Reject([f EXCEPT !.error = [type |-> "TranscriptionError",
                                     status_code |-> outcome.status_code]],
                transcription_error_status(outcome), "transcription failed")
    ELSE LET english_text == outcome.value.transcription_text
             f1 == [f EXCEPT !.transcription_result = outcome.value,
                             !.english_text = english_text]
         IN  IF english_text = <<>>
             THEN Reject(f1, 500, "Transcription returned empty text")
             ELSE analyze_begin(f1, req)

\* analyze_audio from its entry to its first await
analyze_audio_begin(req) ==
    LET rejection == analyze_audio_validate(req)
    IN  IF rejection # None
        THEN Reject(IdleFrame, rejection.status, rejection.detail)
        ELSE LET entry == transcribe_audio_entry("English")
                 f1 == Log(IdleFrame, "transcribe_audio", <<>>, "English", "")
             IN  IF entry.kind = "raise"
                 THEN transcribe_end(f1, req, entry)
                 ELSE [Log(f1, "sdk.transcribe", <<>>, entry.lang_code, "")
                         EXCEPT !.pc = "transcribe"]

\* mutant: the handler goes on as soon as one of the two tasks is done
task_finished_first(f, req) ==
    IF f.sentiment_task.state = "done" \/ f.entities_task.state = "done"
    THEN analyze_returned(f, req)
    ELSE f

\* the frame after one of the two tasks of gather has finished
task_finished(f, req) ==
    IF f.sentiment_task.state = "done" /\ f.entities_task.state = "done"
    THEN analyze_returned(f, req)
    ELSE f

\* mutant: an error of the sentiment call also drops the entities result
sentiment_raised_drops_sibling(f) ==
    [f EXCEPT !.sentiment_task.state = "done", !.sentiment_task.result = None,
              !.entities_task.state = "done", !.entities_task.result = None]

\* the sentiment task after client.get_sentiments raised: analyze_sentiment
\* retries or returns None (and run_sentiment would turn a raise into None)
sentiment_raised(f) ==
    LET e == analyze_except(f.sentiment_task.attempt, HANDLER_MAX_RETRIES)
    IN  IF e.kind = "retry"
        THEN [Log(f, "sdk.get_sentiments", sentiment_text_to_analyze(f.english_text), "", "")
                EXCEPT !.sentiment_task.attempt = @ + 1]
        ELSE [f EXCEPT !.sentiment_task.state = "done", !.sentiment_task.result = e.value]

\* the entities task after client.get_entities raised
entities_raised(f) ==
    LET e == analyze_except(f.entities_task.attempt, HANDLER_MAX_RETRIES)
    IN  IF e.kind = "retry"
        THEN [Log(f, "sdk.get_entities", Strip(f.english_text), "", "")
                EXCEPT !.entities_task.attempt = @ + 1]
        ELSE [f EXCEPT !.entities_task.state = "done", !.entities_task.result = e.value]

\* a task of gather when gather is cancelled
task_cancel(task) ==
    IF task.state = "running" THEN [task EXCEPT !.state = "cancelling"] ELSE task

\* the frame after the worker of a cancelled task has ended
worker_exited(f, req) ==
    IF f.sentiment_task.state # "cancelling" /\ f.entities_task.state # "cancelling"
    THEN analyze_timed_out(f, req)
    ELSE f

(* ------------------------------ actions -------------------------------- *)

Init ==
    /\ token \in BOOLEAN
    /\ served = 0
    /\ request = NoRequest
    /\ h = IdleFrame
    /\ g = IdleCall
    /\ fm = IdleFormat
    /\ reqs = [i \in Slots |-> NoRequest]
    /\ answers = [i \in Slots |-> NoAnswers]
    /\ hs = [i \in Slots |-> IdleFrame]
    /\ arrived = [i \in Slots |-> {}]

\* the server takes the next request once the previous one is answered
CanAccept == h.pc \in {"idle", "done"} /\ served < MaxRequests

\* POST /api/analyze-text, up to the first await or the response
AnalyzeText(content, language) ==
    /\ CanAccept
    /\ LET req == [endpoint |-> "analyze-text", content |-> content,
                   language |-> language, file |-> ""]
       IN  /\ request' = req
           /\ h' = analyze_text_begin(req)
    /\ served' = served + 1
    /\ UNCHANGED <<token, g, fm, concurrent>>

\* POST /api/analyze-audio, up to the first await or the response
AnalyzeAudio(file, language) ==
    /\ CanAccept
    /\ LET req == [endpoint |-> "analyze-audio", content |-> <<>>,
                   language |-> language, file |-> file]
       IN  /\ request' = req
           /\ h' = analyze_audio_begin(req)
    /\ served' = served + 1
    /\ UNCHANGED <<token, g, fm, concurrent>>

\* GET /api/languages
GetLanguages ==
    /\ CanAccept
    /\ request' = [NoRequest EXCEPT !.endpoint = "languages"]
    /\ h' = [IdleFrame EXCEPT
               !.pc = "done",
               !.response = [status             |-> 200,
                             languages          |-> DOMAIN LANGUAGE_MAP,
                             language_codes     |-> LANGUAGE_MAP,
                             stt_language_codes |-> STT_LANGUAGE_MAP]]
    /\ served' = served + 1
    /\ UNCHANGED <<token, g, fm, concurrent>>

\* GET /health
HealthCheck ==
    /\ CanAccept
    /\ request' = [NoRequest EXCEPT !.endpoint = "health"]
    /\ h' = [IdleFrame EXCEPT !.pc = "done",
                              !.response = [status |-> 200, body |-> "healthy"]]
    /\ served' = served + 1
    /\ UNCHANGED <<token, g, fm, concurrent>>

\* Step 1: client.translate returned data within the timeout
TranslateInReturn(data) ==
    /\ h.pc = "translate_in"
    /\ h' = translate_in_end(h, request, "returned",
                             translate_text_parse(request.content, data))
    /\ UNCHANGED <<token, served, request, g, fm, concurrent>>

\* Step 1: client.translate raised within the timeout; translate_text returns
TranslateInRaise ==
    /\ h.pc = "translate_in"
    /\ h' = translate_in_end(Log(h, "sdk.translate.raised", <<>>, "", ""),
                             request, "returned",
                             translate_text_except(request.content))
    /\ UNCHANGED <<token, served, request, g, fm, concurrent>>

\* Step 1: the 3 s timer fires first; wait_for cancels translate_text, whose
\* `with ThreadPoolExecutor()` block joins the worker thread on the way out
TranslateInTimeout ==
    /\ h.pc = "translate_in"
    /\ h' = [h EXCEPT !.pc = "translate_in_cancel", !.translate_call = "cancelling"]
    /\ UNCHANGED <<token, served, request, g, fm, concurrent>>

\* Step 1: the cancelled call's worker thread ends; wait_for raises TimeoutError
TranslateInCancelled ==
    /\ h.pc = "translate_in_cancel"
    /\ h' = translate_in_end([h EXCEPT !.translate_call = "cancelled"],
                             request, "timeout", <<>>)
    /\ UNCHANGED <<token, served, request, g, fm, concurrent>>

\* Step 2: client.get_sentiments returned data
SentimentReturn(data) ==
    /\ h.pc = "analyze"
    /\ h.sentiment_task.state = "running"
    /\ h' = task_finished(
               [h EXCEPT !.sentiment_task.state = "done",
                         !.sentiment_task.result = analyze_sentiment_parse(data)],
               request)
    /\ UNCHANGED <<token, served, request, g, fm, concurrent>>

\* Step 2: client.get_sentiments raised
SentimentRaise ==
    /\ h.pc = "analyze"
    /\ h.sentiment_task.state = "running"
    /\ h' = task_finished(
               sentiment_raised(Log(h, "sdk.get_sentiments.raised", <<>>, "", "")),
               request)
    /\ UNCHANGED <<token, served, request, g, fm, concurrent>>

\* Step 2: client.get_entities returned data
EntitiesReturn(data) ==
    /\ h.pc = "analyze"
    /\ h.entities_task.state = "running"
    /\ h' = task_finished(
               [h EXCEPT !.entities_task.state = "done",
                         !.entities_task.result = analyze_entities_parse(data)],
               request)
    /\ UNCHANGED <<token, served, request, g, fm, concurrent>>

\* Step 2: client.get_entities raised
EntitiesRaise ==
    /\ h.pc = "analyze"
    /\ h.entities_task.state = "running"
    /\ h' = task_finished(
               entities_raised(Log(h, "sdk.get_entities.raised", <<>>, "", "")),
               request)
    /\ UNCHANGED <<token, served, request, g, fm, concurrent>>

\* Step 2: the shared 3 s timer fires before both tasks are done; wait_for
\* cancels gather, which cancels the tasks still running
AnalyzeTimeout ==
    /\ h.pc = "analyze"
    /\ h' = [h EXCEPT !.pc = "analyze_cancel",
                      !.sentiment_task = task_cancel(@),
                      !.entities_task  = task_cancel(@)]
    /\ UNCHANGED <<token, served, request, g, fm, concurrent>>

\* Step 2: the worker thread of the cancelled sentiment task ends
SentimentCancelled ==
    /\ h.pc = "analyze_cancel"
    /\ h.sentiment_task.state = "cancelling"
    /\ h' = worker_exited([h EXCEPT !.sentiment_task.state = "cancelled"], request)
    /\ UNCHANGED <<token, served, request, g, fm, concurrent>>

\* Step 2: the worker thread of the cancelled entities task ends
EntitiesCancelled ==
    /\ h.pc = "analyze_cancel"
    /\ h.entities_task.state = "cancelling"
    /\ h' = worker_exited([h EXCEPT !.entities_task.state = "cancelled"], request)
    /\ UNCHANGED <<token, served, request, g, fm, concurrent>>

\* Step 4: client.translate returned data within the timeout
TranslateBackReturn(data) ==
    /\ h.pc = "translate_back"
    /\ h' = translate_back_end(h, request, "returned",
                               translate_text_parse(h.analysis_text, data))
    /\ UNCHANGED <<token, served, request, g, fm, concurrent>>

\* Step 4: client.translate raised within the timeout; translate_text returns
TranslateBackRaise ==
    /\ h.pc = "translate_back"
    /\ h' = translate_back_end(Log(h, "sdk.translate.raised", <<>>, "", ""),
                               request, "returned",
                               translate_text_except(h.analysis_text))
    /\ UNCHANGED <<token, served, request, g, fm, concurrent>>

\* Step 4: the 3 s timer fires first
TranslateBackTimeout ==
    /\ h.pc = "translate_back"
    /\ h' = [h EXCEPT !.pc = "translate_back_cancel", !.translate_call = "cancelling"]
    /\ UNCHANGED <<token, served, request, g, fm, concurrent>>

\* Step 4: the cancelled call's worker thread ends; wait_for raises TimeoutError
TranslateBackCancelled ==
    /\ h.pc = "translate_back_cancel"
    /\ h' = translate_back_end([h EXCEPT !.translate_call = "cancelled"],
                               request, "timeout", <<>>)
    /\ UNCHANGED <<token, served, request, g, fm, concurrent>>

\* audio Step 1: client.transcribe returned data
TranscribeReturn(data) ==
    /\ h.pc = "transcribe"
    /\ h' = transcribe_end(Log(h, "sdk.transcribe.returned", data.transcription_text, "", data.id),
                           request, transcribe_audio_parse(data))
    /\ UNCHANGED <<token, served, request, g, fm, concurrent>>

\* audio Step 1: client.transcribe, or reading the upload, raised
TranscribeRaise ==
    /\ h.pc = "transcribe"
    /\ h' = transcribe_end(Log(h, "sdk.transcribe.raised", <<>>, "", ""),
                           request, transcribe_audio_except)
    /\ UNCHANGED <<token, served, request, g, fm, concurrent>>

Next ==
    \/ \E c \in Contents, l \in RequestLanguages : AnalyzeText(c, l)
    \/ \E a \in AudioFiles, l \in RequestLanguages : AnalyzeAudio(a, l)
    \/ GetLanguages
    \/ HealthCheck
    \/ \E d \in TranslateAnswers : TranslateInReturn(d)
    \/ TranslateInRaise
    \/ TranslateInTimeout
    \/ TranslateInCancelled
    \/ \E d \in SentimentAnswers : SentimentReturn(d)
    \/ SentimentRaise
    \/ \E d \in EntitiesAnswers : EntitiesReturn(d)
    \/ EntitiesRaise
    \/ AnalyzeTimeout
    \/ SentimentCancelled
    \/ EntitiesCancelled
    \/ \E d \in TranslateAnswers : TranslateBackReturn(d)
    \/ TranslateBackRaise
    \/ TranslateBackTimeout
    \/ TranslateBackCancelled
    \/ \E d \in TranscribeAnswers : TranscribeReturn(d)
    \/ TranscribeRaise

Spec == Init /\ [][Next]_vars

(* ------------------------ what the event loop owes --------------------- *)
(* The event loop runs every callback that is ready: a result or an error  *)
(* a worker thread has handed over is delivered, and a timer that is due   *)
(* fires.  So a handler suspended in wait_for is resumed by one of the     *)
(* three.  Nothing makes the provider answer: the end of a worker thread   *)
(* whose wait was cancelled (the *Cancelled actions), the answer to        *)
(* client.transcribe (awaited without a timeout) and the arrival of        *)
(* requests are not fair.                                                  *)

\* wait_for of Step 1 ends
TranslateInEnds ==
    \/ \E d \in TranslateAnswers : TranslateInReturn(d)
    \/ TranslateInRaise
    \/ TranslateInTimeout

\* wait_for of Step 2 ends, or one of its two calls does
AnalyzeEnds ==
    \/ \E d \in SentimentAnswers : SentimentReturn(d)
    \/ SentimentRaise
    \/ \E d \in EntitiesAnswers : EntitiesReturn(d)
    \/ EntitiesRaise
    \/ AnalyzeTimeout

\* wait_for of Step 4 ends
TranslateBackEnds ==
    \/ \E d \in TranslateAnswers : TranslateBackReturn(d)
    \/ TranslateBackRaise
    \/ TranslateBackTimeout

SpecLive ==
    /\ Init
    /\ [][Next]_vars
    /\ WF_vars(TranslateInEnds)
    /\ WF_vars(AnalyzeEnds)
    /\ WF_vars(TranslateBackEnds)

(* ------------------- the gateway functions on their own ---------------- *)
(* One call of one function of src/services with arguments of the caller's *)
(* choice; the handlers of app.py are not involved.                        *)

NewCall(fn) == [IdleCall EXCEPT !.fn = fn]

\* await translate_text(text, source_lang, target_lang)
CallTranslateText(text, source_lang, target_lang) ==
    /\ g.pc = "idle"
    /\ g' = translate_text_begin([NewCall("translate_text") EXCEPT
                                     !.text = text,
                                     !.source_lang = source_lang,
                                     !.target_lang = target_lang])
    /\ UNCHANGED <<token, served, request, h, fm, concurrent>>

\* client.translate returned data
SdkTranslateReturn(data) ==
    /\ g.pc = "sdk"
    /\ g.fn = "translate_text"
    /\ g' = call_return(Event(g, "returned", 0), translate_text_parse(g.text, data))
    /\ UNCHANGED <<token, served, request, h, fm, concurrent>>

\* client.translate raised
SdkTranslateRaise ==
    /\ g.pc = "sdk"
    /\ g.fn = "translate_text"
    /\ g' = call_return(Event(g, "raised", 0), translate_text_except(g.text))
    /\ UNCHANGED <<token, served, request, h, fm, concurrent>>

\* await analyze_sentiment(text, max_retries) / analyze_entities(text, max_retries)
CallAnalyze(fn, text, max_retries) ==
    /\ g.pc = "idle"
    /\ g' = analyze_call_begin([NewCall(fn) EXCEPT !.text = text,
                                                   !.max_retries = max_retries])
    /\ UNCHANGED <<token, served, request, h, fm, concurrent>>

\* client.get_sentiments returned data
SdkSentimentsReturn(data) ==
    /\ g.pc = "sdk"
    /\ g.fn = "analyze_sentiment"
    /\ g' = analyze_call_returned(g, data)
    /\ UNCHANGED <<token, served, request, h, fm, concurrent>>

\* client.get_entities returned data
SdkEntitiesReturn(data) ==
    /\ g.pc = "sdk"
    /\ g.fn = "analyze_entities"
    /\ g' = analyze_call_returned(g, data)
    /\ UNCHANGED <<token, served, request, h, fm, concurrent>>

\* client.get_sentiments / client.get_entities raised
SdkAnalyzeRaise ==
    /\ g.pc = "sdk"
    /\ g.fn \in {"analyze_sentiment", "analyze_entities"}
    /\ g' = analyze_call_raised(g)
    /\ UNCHANGED <<token, served, request, h, fm, concurrent>>

\* the backoff sleep is over
BackoffSlept ==
    /\ g.pc = "sleep"
    /\ g' = analyze_slept(g)
    /\ UNCHANGED <<token, served, request, h, fm, concurrent>>

\* get_language_code(language)
CallGetLanguageCode(language) ==
    /\ g.pc = "idle"
    /\ g' = call_return([NewCall("get_language_code") EXCEPT !.language = language],
                        get_language_code(language))
    /\ UNCHANGED <<token, served, request, h, fm, concurrent>>

\* get_stt_language_code(language)
CallGetSttLanguageCode(language) ==
    /\ g.pc = "idle"
    /\ g' = call_return([NewCall("get_stt_language_code") EXCEPT !.language = language],
                        get_stt_language_code(language))
    /\ UNCHANGED <<token, served, request, h, fm, concurrent>>

NextGateway ==
    \/ \E t \in GatewayTexts, s \in GatewayCodes, d \in GatewayCodes : CallTranslateText(t, s, d)
    \/ \E d \in TranslateAnswers : SdkTranslateReturn(d)
    \/ SdkTranslateRaise
    \/ \E fn \in {"analyze_sentiment", "analyze_entities"}, t \in GatewayTexts,
          n \in 0..MaxRetries : CallAnalyze(fn, t, n)
    \/ \E d \in GatewaySentimentAnswers : SdkSentimentsReturn(d)
    \/ \E d \in EntitiesAnswers : SdkEntitiesReturn(d)
    \/ SdkAnalyzeRaise
    \/ BackoffSlept
    \/ \E l \in GatewayNames : CallGetLanguageCode(l)
    \/ \E l \in GatewayNames : CallGetSttLanguageCode(l)

SpecGateway == Init /\ [][NextGateway]_vars

(* ----------------------- the formatter on its own ---------------------- *)

\* entities a caller hands to the formatter: distinct words, so that order shows
EntityWords ==
    <<"Lagos", "Amina", "Nairobi", "maize", "Limpopo", "Thabo", "Accra",
      "cassava", "Kano", "Zanele", "Durban", "sorghum", "Maputo", "Kofi">>

EntityTypes == <<"location", "person">>

FormatEntity(i) ==
    [entity |-> EntityTypes[1 + ((i + 1) % 2)], word |-> EntityWords[i]]

\* the first n of them, the b-th with an empty word (b = 0: none)
FormatEntityList(n, b) ==
    [i \in 1..n |-> IF i = b THEN [FormatEntity(i) EXCEPT !.word = ""] ELSE FormatEntity(i)]

\* sentiment_result arguments: None, a result, a dict without the key
FormatSentiments ==
    {None, [error |-> "no label"]}
      \cup { [overall_sentiment |-> l] : l \in SentimentLabels }

\* entities_result arguments: None, a result, a dict without the key
FormatEntities ==
    {None, [error |-> "no entities"]}
      \cup { [entities |-> FormatEntityList(n, b)] : n \in 0..MaxFormatEntities, b \in 0..1 }
      \cup { [entities |-> FormatEntityList(n, n)] : n \in 1..MaxFormatEntities }
      \cup { [entities |-> FormatEntityList(n, FORMAT_ENTITY_LIMIT)] :
                n \in FORMAT_ENTITY_LIMIT..MaxFormatEntities }

\* the caller's arguments
InitFormat ==
    /\ token \in BOOLEAN
    /\ served = 0
    /\ request = NoRequest
    /\ h = IdleFrame
    /\ g = IdleCall
    /\ \E s \in FormatSentiments, e \in FormatEntities :
          fm = [IdleFormat EXCEPT !.sentiment_result = s, !.entities_result = e]
    /\ reqs = [i \in Slots |-> NoRequest]
    /\ answers = [i \in Slots |-> NoAnswers]
    /\ hs = [i \in Slots |-> IdleFrame]
    /\ arrived = [i \in Slots |-> {}]

\* format_analysis_results(sentiment_result, entities_result)
Format ==
    /\ fm.pc = "idle"
    /\ fm' = [fm EXCEPT !.pc = "done",
                        !.text = format_analysis_results(fm.sentiment_result,
                                                         fm.entities_result)]
    /\ UNCHANGED <<token, served, request, h, g, concurrent>>

NextFormat == Format

SpecFormat == InitFormat /\ [][NextFormat]_vars

(* ------------------ requests handled at the same time ------------------ *)
(* MaxConcurrent text requests are in progress on one event loop, each in  *)
(* its own handler coroutine; the gateway calls run in worker threads.     *)
(* The provider's answer to every call of a request is fixed when the      *)
(* request arrives: its payload, and whether it comes within the 3 s       *)
(* timeout or after it.  A handler whose wait has timed out holds the      *)
(* event-loop thread in executor.shutdown(wait=True) until its worker      *)
(* thread ends: until then no other handler runs, no result is delivered   *)
(* and no timer fires, while the worker threads of the others go on.  When *)
(* the loop runs again, a result that has arrived is delivered before the  *)
(* timer that is due (call_soon_threadsafe queued it first), so the wait   *)
(* returns the result.                                                     *)

ConcurrentLanguages == {"English", "isiZulu"}

ConcurrentContent == <<"Harvest was excellent this year">>

\* the payload the provider answers to each call
ProviderData ==
    [c \in AwaitedCalls |->
        CASE c \in {"translate_in", "translate_back"} ->
                   [translation |-> <<[translated_text |-> <<"translated">>]>>]
          [] c = "sentiment" -> [sentiments |-> <<"positive">>]
          [] c = "entities"  -> [entities |-> <<[entity |-> "location", word |-> "Lagos"]>>]]

ConcurrentAnswers ==
    { [c \in AwaitedCalls |-> [data |-> ProviderData[c], late |-> c \in L]] :
        L \in SUBSET AwaitedCalls }

\* positions at which the handler holds the event-loop thread
BlockingPcs == {"translate_in_cancel", "analyze_cancel", "translate_back_cancel"}

\* the event-loop thread is held by some handler
LoopBlocked == \E j \in Slots : hs[j].pc \in BlockingPcs

\* the translate call the frame is awaiting (or was, when the timer fired)
awaited_translate(f) ==
    IF f.pc \in {"translate_in", "translate_in_cancel"} THEN "translate_in" ELSE "translate_back"

\* wait_for(translate_text_service(...)) returns the result of client.translate
translate_returned(f, req, data) ==
    IF f.pc = "translate_in"
    THEN translate_in_end(f, req, "returned", translate_text_parse(req.content, data))
    ELSE translate_back_end(f, req, "returned", translate_text_parse(f.analysis_text, data))

\* the timer of the wait_for fires: translate_text is cancelled and joins its worker
translate_timer_fired(f) ==
    [f EXCEPT !.pc = IF @ = "translate_in" THEN "translate_in_cancel"
                     ELSE "translate_back_cancel",
              !.translate_call = "cancelling"]

\* the worker of the cancelled translate call has ended: wait_for raises TimeoutError
translate_timed_out(f, req) ==
    IF f.pc = "translate_in_cancel"
    THEN translate_in_end([f EXCEPT !.translate_call = "cancelled"], req, "timeout", <<>>)
    ELSE translate_back_end([f EXCEPT !.translate_call = "cancelled"], req, "timeout", <<>>)

\* a task of Step 2 gets the result of its SDK call
task_returned(f, req, task, data) ==
    task_finished(
        IF task = "sentiment"
        THEN [f EXCEPT !.sentiment_task.state = "done",
                       !.sentiment_task.result = analyze_sentiment_parse(data)]
        ELSE [f EXCEPT !.entities_task.state = "done",
                       !.entities_task.result = analyze_entities_parse(data)],
        req)

\* the shared timer of Step 2 fires: gather cancels the tasks still running
analyze_timer_fired(f) ==
    [f EXCEPT !.pc = "analyze_cancel",
              !.sentiment_task = task_cancel(@),
              !.entities_task  = task_cancel(@)]

\* the worker of a cancelled task of Step 2 has ended
task_cancelled(f, req, task) ==
    worker_exited(
        IF task = "sentiment"
        THEN [f EXCEPT !.sentiment_task.state = "cancelled"]
        ELSE [f EXCEPT !.entities_task.state = "cancelled"],
        req)

TaskOf(f, task) == IF task = "sentiment" THEN f.sentiment_task ELSE f.entities_task

\* the calls of the frame that are in flight and awaited
InFlight(f) ==
    CASE f.pc \in {"translate_in", "translate_back"} -> {awaited_translate(f)}
      [] f.pc = "analyze" -> { t \in {"sentiment", "entities"} : TaskOf(f, t).state = "running" }
      [] OTHER -> {}

\* POST /api/analyze-text arrives and its handler runs to its first await
Accept(i, language, ans) ==
    /\ ~LoopBlocked
    /\ hs[i].pc = "idle"
    /\ LET req == [endpoint |-> "analyze-text", content |-> ConcurrentContent,
                   language |-> language, file |-> ""]
       IN  /\ reqs' = [reqs EXCEPT ![i] = req]
           /\ hs' = [hs EXCEPT ![i] = analyze_text_begin(req)]
    /\ answers' = [answers EXCEPT ![i] = ans]
    /\ UNCHANGED <<token, served, request, h, g, fm, arrived>>

\* the result of the awaited client.translate is delivered to handler i
DeliverTranslate(i) ==
    /\ ~LoopBlocked
    /\ hs[i].pc \in {"translate_in", "translate_back"}
    /\ LET c == awaited_translate(hs[i])
       IN  /\ ~answers[i][c].late \/ c \in arrived[i]
           /\ hs' = [hs EXCEPT ![i] = translate_returned(@, reqs[i], answers[i][c].data)]
           /\ arrived' = [arrived EXCEPT ![i] = @ \ {c}]
    /\ UNCHANGED <<token, served, request, h, g, fm, reqs, answers>>

\* the 3 s timer of handler i's wait_for fires while client.translate is running
TranslateTimerFires(i) ==
    /\ ~LoopBlocked
    /\ hs[i].pc \in {"translate_in", "translate_back"}
    /\ LET c == awaited_translate(hs[i])
       IN  answers[i][c].late /\ c \notin arrived[i]
    /\ hs' = [hs EXCEPT ![i] = translate_timer_fired(@)]
    /\ UNCHANGED <<token, served, request, h, g, fm, reqs, answers, arrived>>

\* the worker of handler i's cancelled translate call ends: the loop runs again
TranslateWorkerJoined(i) ==
    /\ hs[i].pc \in {"translate_in_cancel", "translate_back_cancel"}
    /\ hs' = [hs EXCEPT ![i] = translate_timed_out(@, reqs[i])]
    /\ UNCHANGED <<token, served, request, h, g, fm, reqs, answers, arrived>>

\* the result of a task of Step 2 is delivered to handler i
DeliverTask(i, task) ==
    /\ ~LoopBlocked
    /\ hs[i].pc = "analyze"
    /\ TaskOf(hs[i], task).state = "running"
    /\ ~answers[i][task].late \/ task \in arrived[i]
    /\ hs' = [hs EXCEPT ![i] = task_returned(@, reqs[i], task, answers[i][task].data)]
    /\ arrived' = [arrived EXCEPT ![i] = @ \ {task}]
    /\ UNCHANGED <<token, served, request, h, g, fm, reqs, answers>>

\* the shared 3 s timer of handler i's Step 2 fires while a call is running
AnalyzeTimerFires(i) ==
    /\ ~LoopBlocked
    /\ hs[i].pc = "analyze"
    /\ \E task \in InFlight(hs[i]) : answers[i][task].late /\ task \notin arrived[i]
    /\ hs' = [hs EXCEPT ![i] = analyze_timer_fired(@)]
    /\ arrived' = [arrived EXCEPT ![i] = {}]
    /\ UNCHANGED <<token, served, request, h, g, fm, reqs, answers>>

\* the worker of a cancelled task of handler i ends
TaskWorkerJoined(i, task) ==
    /\ hs[i].pc = "analyze_cancel"
    /\ TaskOf(hs[i], task).state = "cancelling"
    /\ hs' = [hs EXCEPT ![i] = task_cancelled(@, reqs[i], task)]
    /\ UNCHANGED <<token, served, request, h, g, fm, reqs, answers, arrived>>

\* a late answer reaches the worker thread of handler i while another handler
\* holds the event-loop thread: the result waits to be delivered
ArriveWhileBlocked(i, c) ==
    /\ \E j \in Slots \ {i} : hs[j].pc \in BlockingPcs
    /\ c \in InFlight(hs[i])
    /\ answers[i][c].late
    /\ c \notin arrived[i]
    /\ arrived' = [arrived EXCEPT ![i] = @ \cup {c}]
    /\ UNCHANGED <<token, served, request, h, g, fm, reqs, answers, hs>>

NextConcurrent ==
    \/ \E i \in Slots, l \in ConcurrentLanguages, a \in ConcurrentAnswers : Accept(i, l, a)
    \/ \E i \in Slots : DeliverTranslate(i)
    \/ \E i \in Slots : TranslateTimerFires(i)
    \/ \E i \in Slots : TranslateWorkerJoined(i)
    \/ \E i \in Slots, t \in {"sentiment", "entities"} : DeliverTask(i, t)
    \/ \E i \in Slots : AnalyzeTimerFires(i)
    \/ \E i \in Slots, t \in {"sentiment", "entities"} : TaskWorkerJoined(i, t)
    \/ \E i \in Slots, c \in AwaitedCalls : ArriveWhileBlocked(i, c)

SpecConcurrent == Init /\ [][NextConcurrent]_vars

(* ------------------------ reading the call log ------------------------- *)

Ops(f) == { f.calls[i].op : i \in DOMAIN f.calls }

Indices(f, op) == { i \in DOMAIN f.calls : f.calls[i].op = op }

CountOp(f, op) == Cardinality(Indices(f, op))

\* the first log entry of `op` (there must be one)
FirstEntry(f, op) == f.calls[CHOOSE i \in Indices(f, op) : \A j \in Indices(f, op) : i <= j]

\* the last log entry of `op` (there must be one)
LastEntry(f, op) == f.calls[CHOOSE i \in Indices(f, op) : \A j \in Indices(f, op) : j <= i]

\* calls that reach the provider
SdkOps == {"sdk.translate", "sdk.get_sentiments", "sdk.get_entities", "sdk.transcribe"}

\* everything after Validate / Transcribe
PipelineOps ==
    {"translate_text", "analyze_sentiment", "analyze_entities",
     "sdk.translate", "sdk.get_sentiments", "sdk.get_entities"}

IsAudio(req) == req.endpoint = "analyze-audio"

IsAnalysis(req) == IsText(req) \/ IsAudio(req)

AllWhitespace(t) == \A i \in DOMAIN t : t[i] \in Whitespace

\* the request breaks a rule of Validate other than the credential
Invalid(req) ==
    \/ IsText(req) /\ AllWhitespace(req.content)
    \/ IsText(req) /\ req.language \notin DOMAIN LANGUAGE_MAP
    \/ IsAudio(req) /\ req.language \notin DOMAIN STT_LANGUAGE_MAP

Answered == h.pc = "done"

\* the analysis text of a success response
ResponseText == IF IsText(request) THEN h.response.content ELSE h.response.analysis

(* ------------------------------- claims -------------------------------- *)

\* C1: a text request whose content is empty or whitespace-only, and a request
\* whose language is not a key of the registry of its flow (LANGUAGE_MAP for
\* analyze-text, STT_LANGUAGE_MAP for analyze-audio), is answered 400 and no
\* gateway or provider call is made for it.
C1_InvalidRequestRejected ==
    Invalid(request) =>
        /\ Answered
        /\ h.response.status = 400
        /\ h.calls = <<>>

C1_Witness ==
    /\ token
    /\ IsText(request)
    /\ request.content = <<" ">>
    /\ request.language = "isiZulu"
    /\ Answered
    /\ h.response.status = 400

\* C2 as stated: without the credential every analyze-text and analyze-audio
\* request is answered 503 with no provider call, and languages and health
\* succeed.
C2_Original ==
    ~token =>
        /\ IsAnalysis(request) =>
              Answered /\ h.response.status = 503 /\ h.calls = <<>>
        /\ request.endpoint \in {"languages", "health"} =>
              Answered /\ h.response.status = 200

\* C2 amended: without the credential every analyze-text and analyze-audio
\* request that passes the content and language checks is answered 503, no
\* request leads to a provider call, and languages and health succeed.
C2_NoCredential ==
    ~token =>
        /\ (IsAnalysis(request) /\ ~Invalid(request)) =>
              Answered /\ h.response.status = 503
        /\ h.calls = <<>>
        /\ request.endpoint \in {"languages", "health"} =>
              Answered /\ h.response.status = 200

C2_Witness ==
    /\ ~token
    /\ IsText(request)
    /\ ~Invalid(request)
    /\ Answered
    /\ h.response.status = 503

\* C3: a text request that has passed Validate is never answered with an
\* error, whatever the provider does in translate-to-English, sentiment,
\* entities and translate-back (result, error or timeout).
C3_TextNeverFailsAfterValidate ==
    (IsText(request) /\ ~Invalid(request) /\ token /\ Answered) =>
        h.response.status = 200

C3_Witness ==
    /\ IsText(request)
    /\ Answered
    /\ h.response.status = 200
    /\ h.translate_in = "timeout"
    /\ "sdk.get_sentiments.raised" \in Ops(h)
    /\ "sdk.get_entities.raised" \in Ops(h)
    /\ h.translate_back = "timeout"

\* C4: in the text flow with a translation code other than eng_Latn, once
\* translate-to-English is over the text given to analyze_sentiment and to
\* analyze_entities is what translate_text returned if it returned within the
\* timeout, and the request content if it timed out or raised; both are called.
C4_TranslateInFallback ==
    (IsText(request) /\ h.source_lang_code \notin {"", "eng_Latn"}
        /\ h.translate_in # "none") =>
        LET expected == IF h.translate_in = "returned"
                        THEN FirstEntry(h, "translate_text.return").text
                        ELSE request.content
        IN  /\ h.english_text = expected
            /\ CountOp(h, "analyze_sentiment") = 1
            /\ FirstEntry(h, "analyze_sentiment").text = expected
            /\ CountOp(h, "analyze_entities") = 1
            /\ FirstEntry(h, "analyze_entities").text = expected

C4_Witness ==
    /\ IsText(request)
    /\ request.language = "isiZulu"
    /\ h.translate_in = "timeout"
    /\ h.pc = "analyze"
    /\ h.english_text = request.content
    /\ FirstEntry(h, "sdk.get_sentiments").text = <<"Harvest was excellent this year", ".">>

\* C5: a valid text request in "English" makes no translate call in either
\* direction, calls sentiment and entities exactly once each, on the request
\* content, and its response has language "English".
C5_EnglishSkipsTranslation ==
    (IsText(request) /\ request.language = "English" /\ ~Invalid(request) /\ token) =>
        /\ Ops(h) \cap {"translate_text", "sdk.translate"} = {}
        /\ CountOp(h, "analyze_sentiment") = 1
        /\ CountOp(h, "sdk.get_sentiments") = 1
        /\ FirstEntry(h, "analyze_sentiment").text = request.content
        /\ CountOp(h, "analyze_entities") = 1
        /\ CountOp(h, "sdk.get_entities") = 1
        /\ FirstEntry(h, "analyze_entities").text = request.content
        /\ Answered => h.response.status = 200 /\ h.response.language = "English"

C5_Witness ==
    /\ IsText(request)
    /\ request.language = "English"
    /\ Answered
    /\ h.response.status = 200
    /\ h.response.language = "English"
    /\ h.response.sentiment # None
    /\ "sdk.get_entities.raised" \in Ops(h)

\* C6 as stated: in both flows and for every language, after a timeout of the
\* Analyze step the analysis text of the response is the replacement sentence.
C6_Original ==
    (IsAnalysis(request) /\ h.timed_out /\ Answered) =>
        ResponseText = REPLACEMENT_SENTENCE

\* C6 amended: after a timeout of the Analyze step the analysis text that
\* Format produces is the replacement sentence, whether or not a sub-analysis
\* had completed; the response carries it as it is when translate-back is
\* skipped or times out, and carries what translate_text returned for it
\* otherwise.
C6_TimeoutSentence ==
    (IsAnalysis(request) /\ h.timed_out) =>
        /\ h.analysis_text = REPLACEMENT_SENTENCE
        /\ Answered =>
              /\ h.response.status = 200
              /\ IF h.translate_back = "returned"
                 THEN /\ FirstEntry(h, "translate_text").source_lang # "eng_Latn"
                         => CountOp(h, "translate_text") = 2
                      /\ LastEntry(h, "translate_text").text = REPLACEMENT_SENTENCE
                      /\ ResponseText = LastEntry(h, "translate_text.return").text
                 ELSE ResponseText = REPLACEMENT_SENTENCE

C6_Witness ==
    /\ IsAudio(request)
    /\ request.language = "Afrikaans"
    /\ h.timed_out
    /\ h.sentiment_task.state = "done"
    /\ h.entities_task.state = "cancelled"
    /\ Answered
    /\ h.translate_back = "timeout"
    /\ h.response.analysis = REPLACEMENT_SENTENCE

\* C7: when the shared timeout fires before both tasks are done the step is
\* marked timed out, the formatter is not called, and the sentiment and
\* entities fields of the response are both absent, also when one task had
\* produced a result.
C7_TimeoutDiscardsBoth ==
    /\ ({h.sentiment_task.state, h.entities_task.state} \cap {"cancelling", "cancelled"} # {}
           /\ h.pc # "analyze_cancel")
          => h.timed_out
    /\ h.timed_out =>
          /\ h.sentiment_result = None
          /\ h.entities_result = None
          /\ "format_analysis_results" \notin Ops(h)
          /\ Answered => h.response.sentiment = None /\ h.response.entities = None

C7_Witness ==
    /\ IsText(request)
    /\ h.timed_out
    /\ h.sentiment_task.state = "cancelled"
    /\ h.entities_task.state = "done"
    /\ h.entities_task.result # None
    /\ Len(h.entities_task.result.entities) > 0
    /\ Answered
    /\ h.response.status = 200
    /\ h.response.entities = None

\* C8: an error of the sentiment call, or of the entities call, makes that
\* result absent and nothing else: the other task goes on, its result is kept,
\* the step is not marked timed out, and the formatter gets both results.
C8_ErrorIsolated ==
    LET sentiment_failed == "sdk.get_sentiments.raised" \in Ops(h)
        entities_failed  == "sdk.get_entities.raised" \in Ops(h)
        both_done == h.sentiment_task.state = "done" /\ h.entities_task.state = "done"
    IN  /\ (sentiment_failed /\ h.pc = "analyze") =>
              h.entities_task.state = "running" /\ h.sentiment_task.result = None
        /\ (entities_failed /\ h.pc = "analyze") =>
              h.sentiment_task.state = "running" /\ h.entities_task.result = None
        /\ ((sentiment_failed \/ entities_failed) /\ both_done /\ h.pc # "analyze") =>
              /\ ~h.timed_out
              /\ h.sentiment_result =
                    (IF sentiment_failed THEN None ELSE h.sentiment_task.result)
              /\ h.entities_result =
                    (IF entities_failed THEN None ELSE h.entities_task.result)
              /\ ~entities_failed => h.entities_result # None
              /\ CountOp(h, "format_analysis_results") = 1
              /\ h.analysis_text =
                    format_analysis_results(h.sentiment_result, h.entities_result)

C8_Witness ==
    /\ "sdk.get_sentiments.raised" \in Ops(h)
    /\ "sdk.get_entities.raised" \notin Ops(h)
    /\ Answered
    /\ h.response.status = 200
    /\ h.response.sentiment = None
    /\ h.response.entities # None
    /\ h.response.entities.entity_count = 1
    /\ h.analysis_text = <<"Entities found: ", "Lagos", " (", "location", ")", ".">>

C10_TranscriptionFailureFatal ==
    (IsAudio(request)
        /\ \/ "sdk.transcribe.raised" \in Ops(h)
           \/ /\ "sdk.transcribe.returned" \in Ops(h)
              /\ FirstEntry(h, "sdk.transcribe.returned").text = <<>>) =>
        /\ Answered
        /\ h.error # None
        /\ h.error.type = "TranscriptionError"
        /\ h.response.status = h.error.status_code
        /\ h.response.status >= 400
        /\ Ops(h) \cap PipelineOps = {}

C10_Witness ==
    /\ IsAudio(request)
    /\ request.language = "Afrikaans"
    /\ "sdk.transcribe.returned" \in Ops(h)
    /\ FirstEntry(h, "sdk.transcribe.returned").text = <<>>
    /\ Answered
    /\ h.response.status = 500

(* claims about the gateway functions called on their own (SpecGateway) *)

\* the SDK calls a gateway function has submitted
SdkCalls(c) == { i \in DOMAIN c.events : c.events[i].ev = "sdk" }

Called(fn) == g.pc # "idle" /\ g.fn = fn

\* C11 as stated: translate_text called with source_lang equal to target_lang
\* returns the input text unchanged and makes no remote call, for every text
\* and every code.
C11_Original ==
    (Called("translate_text") /\ g.source_lang = g.target_lang) =>
        /\ g.pc = "done"
        /\ g.outcome = [kind |-> "return", value |-> g.text]
        /\ SdkCalls(g) = {}

\* C11: translate_text called with source_lang equal to target_lang makes no
\* remote call; with the token configured it returns the input text unchanged,
\* for every text and every code, and without the token it raises
\* TranslationError (status 500) before the codes are compared.
C11_SameCodeReturnsInput ==
    (Called("translate_text") /\ g.source_lang = g.target_lang) =>
        /\ g.pc = "done"
        /\ SdkCalls(g) = {}
        /\ token => g.outcome = [kind |-> "return", value |-> g.text]
        /\ ~token => g.outcome = [kind |-> "raise", status_code |-> 500]

C11_Witness ==
    /\ Called("translate_text")
    /\ token
    /\ g.source_lang = "fra_Latn"
    /\ g.target_lang = "fra_Latn"
    /\ g.text = <<"Is the soil dry", "?">>
    /\ g.outcome = [kind |-> "return", value |-> <<"Is the soil dry", "?">>]

EventsOf(c, ev) == { i \in DOMAIN c.events : c.events[i].ev = ev }

RECURSIVE Doubling(_)
\* 1, 2, 4, ... : the k-th term
Doubling(k) == IF k <= 1 THEN 1 ELSE 2 * Doubling(k - 1)

\* the sleeps of a call, in order
Sleeps(c) == SelectSeq(c.events, LAMBDA e : e.ev = "sleep")

CalledAnalysis == g.pc # "idle" /\ g.fn \in {"analyze_sentiment", "analyze_entities"}

\* C12: analyze_sentiment and analyze_entities called with max_retries = n
\* submit at most n SDK calls; nothing is awaited before the first one; each
\* later one follows a failed attempt and then a sleep, the k-th sleep lasting
\* 2^(k-1); an attempt that returns ends the call at once; the call never
\* raises, and when all n attempts have failed it returns None.
C12_RetryWithBackoff ==
    CalledAnalysis =>
        /\ Cardinality(SdkCalls(g)) <= g.max_retries
        /\ g.events # <<>> => g.events[1].ev = "sdk"
        /\ \A i \in SdkCalls(g) :
              i > 1 => /\ g.events[i - 1].ev = "sleep"
                       /\ g.events[i - 2].ev = "raised"
        /\ \A i \in EventsOf(g, "sleep") : i < Len(g.events) => g.events[i + 1].ev = "sdk"
        /\ \A k \in DOMAIN Sleeps(g) : Sleeps(g)[k].wait_time = Doubling(k)
        /\ \A i \in EventsOf(g, "returned") : i = Len(g.events) /\ g.pc = "done"
        /\ g.pc = "done" => g.outcome.kind = "return"
        /\ (g.pc = "done" /\ g.events # <<>> /\ g.events[Len(g.events)].ev = "raised") =>
              /\ Cardinality(EventsOf(g, "raised")) = g.max_retries
              /\ g.outcome.value = None

C12_Witness ==
    /\ CalledAnalysis
    /\ g.fn = "analyze_entities"
    /\ g.max_retries = 3
    /\ g.pc = "done"
    /\ Cardinality(EventsOf(g, "raised")) = 3
    /\ Len(Sleeps(g)) = 2
    /\ Sleeps(g)[2].wait_time = 2
    /\ g.outcome.value = None

\* how many sentences of a provider answer carry label l
Votes(data, l) == Cardinality({ i \in DOMAIN data.sentiments : data.sentiments[i] = l })

\* analyze_sentiment has returned a result (not None)
SentimentResolved ==
    /\ Called("analyze_sentiment")
    /\ g.pc = "done"
    /\ g.outcome.value # None

\* C13: the overall sentiment analyze_sentiment returns is "positive" exactly
\* when the positive sentences strictly outnumber the negative and the neutral
\* ones, "negative" exactly when the negative sentences strictly outnumber both
\* others, and "neutral" in every other case (ties included); it is always one
\* of the three labels.
C13_MajorityVote ==
    SentimentResolved =>
        LET r   == g.outcome.value
            pos == Votes(r.full_data, "positive")
            neg == Votes(r.full_data, "negative")
            neu == Votes(r.full_data, "neutral")
        IN  /\ r.overall_sentiment \in {"positive", "negative", "neutral"}
            /\ r.overall_sentiment = "positive" <=> (pos > neg /\ pos > neu)
            /\ r.overall_sentiment = "negative" <=> (neg > pos /\ neg > neu)
            /\ (pos = 3 /\ neg = 1 /\ neu = 0) => r.overall_sentiment = "positive"
            /\ (pos = 2 /\ neg = 2 /\ neu = 1) => r.overall_sentiment = "neutral"

C13_Witness ==
    /\ SentimentResolved
    /\ Votes(g.outcome.value.full_data, "positive") = 2
    /\ Votes(g.outcome.value.full_data, "negative") = 2
    /\ Votes(g.outcome.value.full_data, "neutral") = 1
    /\ g.outcome.value.overall_sentiment = "neutral"

(* claims about format_analysis_results called on its own (SpecFormat) *)

Formatted == fm.pc = "done"

Tokens(t) == { t[i] : i \in DOMAIN t }

\* the sentiment argument is present and carries a label
HasLabel ==
    fm.sentiment_result # None /\ "overall_sentiment" \in DOMAIN fm.sentiment_result

\* the entities argument is present and carries a list
HasEntityList ==
    fm.entities_result # None /\ "entities" \in DOMAIN fm.entities_result

\* the entries the formatter looks at: the first ten
Considered ==
    IF HasEntityList
    THEN SubSeq(fm.entities_result.entities, 1,
                IF Len(fm.entities_result.entities) < 10
                THEN Len(fm.entities_result.entities) ELSE 10)
    ELSE <<>>

\* those of them that have a text
Shown == SelectSeq(Considered, LAMBDA e : e.word # "")

\* C14: format_analysis_results always returns a non-empty text that ends in
\* a period; "Sentiment: {label}" opens it when the sentiment is present with
\* a label; the entities part, when there is one, comes after it, separated by
\* ". ", or opens the text when there is no sentiment part; and the text is
\* "Analysis completed. No significant patterns detected." exactly when there
\* is neither part, as for (None, None).
C14_FormatShape ==
    Formatted =>
        /\ fm.text # <<>>
        /\ fm.text[Len(fm.text)] = "."
        /\ HasLabel <=> "Sentiment: " \in Tokens(fm.text)
        /\ HasLabel =>
              /\ fm.text[1] = "Sentiment: "
              /\ fm.text[2] = fm.sentiment_result.overall_sentiment
        /\ (Shown # <<>>) <=> "Entities found: " \in Tokens(fm.text)
        /\ (HasLabel /\ Shown # <<>>) =>
              /\ fm.text[3] = ". "
              /\ fm.text[4] = "Entities found: "
        /\ (HasLabel /\ Shown = <<>>) => Len(fm.text) = 3
        /\ (~HasLabel /\ Shown # <<>>) => fm.text[1] = "Entities found: "
        /\ (~HasLabel /\ Shown = <<>>) <=> fm.text = NO_PATTERNS_SENTENCE
        /\ (fm.sentiment_result = None /\ fm.entities_result = None) =>
              fm.text = <<"Analysis completed", ". ", "No significant patterns detected", ".">>

C14_Witness ==
    /\ Formatted
    /\ HasLabel
    /\ fm.sentiment_result.overall_sentiment = "negative"
    /\ Len(Shown) = 2
    /\ fm.text = <<"Sentiment: ", "negative", ". ", "Entities found: ",
                   "Lagos", " (", "location", ")", ", ", "Amina", " (", "person", ")", ".">>

\* the text has "Entities found: " at position `at`, then exactly the entries
\* of `items` in order, each as "{word} ({entity})", joined with ", ", then the
\* closing period
EntitiesPartIs(items, at) ==
    /\ Len(fm.text) = at + 5 * Len(items)
    /\ fm.text[at] = "Entities found: "
    /\ \A k \in DOMAIN items :
          LET p == at + 1 + 5 * (k - 1)
          IN  /\ fm.text[p]     = items[k].word
              /\ fm.text[p + 1] = " ("
              /\ fm.text[p + 2] = items[k].entity
              /\ fm.text[p + 3] = ")"
              /\ fm.text[p + 4] = IF k < Len(items) THEN ", " ELSE "."

\* where the entities part starts
EntitiesPartAt == IF HasLabel THEN 4 ELSE 1

\* C15 as stated: for a present, non-empty entity list of n entries the text
\* has "Entities found: " followed by exactly min(n, 10) items, the first
\* min(n, 10) entries in order, each "{text} ({type})", joined with ", ".
C15_Original ==
    (Formatted /\ HasEntityList /\ Len(fm.entities_result.entities) > 0) =>
        EntitiesPartIs(Considered, EntitiesPartAt)

\* C15: for a present, non-empty entity list of n entries the text has
\* "Entities found: " followed by exactly those of the first min(n, 10)
\* entries whose text is not empty, in order, each "{text} ({type})", joined
\* with ", "; when none of them has a text there is no entities part; entries
\* beyond the tenth never appear.
C15_EntitiesListed ==
    (Formatted /\ HasEntityList /\ Len(fm.entities_result.entities) > 0) =>
        /\ Shown # <<>> => EntitiesPartIs(Shown, EntitiesPartAt)
        /\ Shown = <<>> => "Entities found: " \notin Tokens(fm.text)
        /\ \A i \in DOMAIN fm.entities_result.entities :
              i > 10 => fm.entities_result.entities[i].word \notin Tokens(fm.text)

C15_Witness ==
    /\ Formatted
    /\ ~HasLabel
    /\ HasEntityList
    /\ Len(fm.entities_result.entities) = 12
    /\ fm.entities_result.entities[10].word = ""
    /\ Len(Shown) = 9
    /\ fm.text[Len(fm.text) - 4] = "Kano"
    /\ "Durban" \notin Tokens(fm.text)

(* claims about the handlers (Spec), continued *)

Succeeded == Answered /\ IsAnalysis(request) /\ h.response.status = 200

\* C16: in every success response of analyze-text and analyze-audio the
\* language field is the language name of the request, unchanged; and when
\* Step 2 did not time out, the sentiment and entities fields are the values
\* analyze_sentiment and analyze_entities resolved to, None included.
C16_ResponseCarriesResults ==
    Succeeded =>
        /\ h.response.language = request.language
        /\ ~h.timed_out =>
              /\ h.sentiment_task.state = "done"
              /\ h.entities_task.state = "done"
              /\ h.response.sentiment = h.sentiment_task.result
              /\ h.response.entities = h.entities_task.result

C16_Witness ==
    /\ Succeeded
    /\ IsAudio(request)
    /\ request.language = "Nigerian Pidgin"
    /\ h.response.language = "Nigerian Pidgin"
    /\ ~h.timed_out
    /\ "sdk.get_entities.raised" \in Ops(h)
    /\ h.response.entities = None
    /\ h.response.sentiment # None
    /\ h.response.sentiment.overall_sentiment = "negative"

\* the SDK call of a task ends in this step (it returned, or raised for the last time)
Completes(before, after) == before.state = "running" /\ after.state = "done"

\* the shared timer of Step 2 fires in this step
DeadlineFires == h.pc = "analyze" /\ h'.pc = "analyze_cancel"

\* C17: the sentiment and the entities call run concurrently: in every step in
\* which the SDK call of one of them ends, the SDK call of the other had
\* already been submitted; and Step 2 has one timer for the pair: the step in
\* which it fires stops the wait for both calls at once.
C17_Concurrent ==
    [][ /\ Completes(h.sentiment_task, h'.sentiment_task) =>
              /\ h.entities_task.state # "none"
              /\ "sdk.get_entities" \in Ops(h)
        /\ Completes(h.entities_task, h'.entities_task) =>
              /\ h.sentiment_task.state # "none"
              /\ "sdk.get_sentiments" \in Ops(h)
        /\ DeadlineFires =>
              /\ h'.sentiment_task.state # "running"
              /\ h'.entities_task.state # "running"
        /\ (h'.sentiment_task.state = "cancelling" /\ h.sentiment_task.state = "running") =>
              DeadlineFires
        /\ (h'.entities_task.state = "cancelling" /\ h.entities_task.state = "running") =>
              DeadlineFires
      ]_vars

\* one call has ended while the other is still in flight
C17_Witness ==
    /\ h.pc = "analyze"
    /\ h.sentiment_task.state = "done"
    /\ h.sentiment_task.result # None
    /\ h.entities_task.state = "running"
    /\ CountOp(h, "sdk.get_sentiments") = 1
    /\ CountOp(h, "sdk.get_entities") = 1

\* positions at which a timeout has fired and the handler is held until the
\* worker thread of the timed-out call ends
HeldByTimedOutCall == {"translate_in_cancel", "analyze_cancel", "translate_back_cancel"}

\* C18: when the timeout of a step fires the handler only stops waiting: it is
\* never held by the call that is still in flight, but is at once at the next
\* step (or at its response).
C18_TimeoutOnlyStopsWaiting ==
    /\ h.pc \notin HeldByTimedOutCall
    /\ h.translate_call # "cancelling"
    /\ h.sentiment_task.state # "cancelling"
    /\ h.entities_task.state # "cancelling"

\* the codes of the translation capability and of the speech capability
TranslationCodes ==
    {"eng_Latn", "zul_Latn", "xho_Latn", "swh_Latn", "afr_Latn", "sot_Latn",
     "nso_Latn", "ssw_Latn", "tso_Latn", "tsn_Latn"}

SpeechCodes == {"eng", "zul", "afr", "sot"}

\* C19: get_language_code and get_stt_language_code return for every name:
\* the code registered for the name, a member of the code set of the function's
\* own capability, when the name is registered, and that capability's English
\* code ("eng_Latn", "eng") for any other name; neither ever raises.
C19_CodesTotal ==
    /\ Called("get_language_code") =>
          /\ g.pc = "done"
          /\ g.outcome.kind = "return"
          /\ g.outcome.value \in TranslationCodes
          /\ g.language \in DOMAIN LANGUAGE_MAP => g.outcome.value = LANGUAGE_MAP[g.language]
          /\ g.language \notin DOMAIN LANGUAGE_MAP => g.outcome.value = "eng_Latn"
    /\ Called("get_stt_language_code") =>
          /\ g.pc = "done"
          /\ g.outcome.kind = "return"
          /\ g.outcome.value \in SpeechCodes
          /\ g.language \in DOMAIN STT_LANGUAGE_MAP => g.outcome.value = STT_LANGUAGE_MAP[g.language]
          /\ g.language \notin DOMAIN STT_LANGUAGE_MAP => g.outcome.value = "eng"

\* a name of the translation registry that the speech registry does not have
C19_Witness ==
    /\ Called("get_stt_language_code")
    /\ g.language = "Tswana"
    /\ g.language \in DOMAIN LANGUAGE_MAP
    /\ g.outcome = [kind |-> "return", value |-> "eng"]

\* C20: when the remote translate call fails, translate_text does not return
\* normally: its caller sees the failure (and substitutes the original text
\* itself).
C20_FailureObservable ==
    (Called("translate_text") /\ EventsOf(g, "raised") # {}) =>
        /\ g.pc = "done"
        /\ g.outcome.kind = "raise"

\* a text request has passed the checks of analyze_text and is not yet answered
TextInProgress == IsText(request) /\ h.pc \notin {"idle", "done"}

\* C21: every text request that passes the checks of analyze_text is
\* eventually answered, whether or not the provider ever answers a call: the
\* timeouts of Step 1, Step 2 and Step 4 alone carry it to its response.
C21_EventuallyResponds == TextInProgress ~> Answered

TranslateOps == {"translate_text", "sdk.translate"}

AnalyzeOps ==
    {"analyze_sentiment", "analyze_entities", "sdk.get_sentiments", "sdk.get_entities"}

\* log entries of Step 1, Step 2, Step 3 and Step 4 (Step 4 translates from English)
InStep1(e) == e.op \in TranslateOps /\ e.source_lang # "eng_Latn"

InStep2(e) == e.op \in AnalyzeOps

InStep3(e) == e.op = "format_analysis_results"

InStep4(e) == e.op \in TranslateOps /\ e.source_lang = "eng_Latn"

\* every entry that satisfies P comes before every entry that satisfies Q
Precedes(P(_), Q(_)) ==
    \A i, j \in DOMAIN h.calls : (P(h.calls[i]) /\ Q(h.calls[j])) => i < j

Step1Resolved ==
    /\ h.translate_in \in {"skipped", "returned", "raised", "timeout"}
    /\ h.pc \notin {"translate_in", "translate_in_cancel"}

Step2Resolved ==
    /\ h.sentiment_task.state \in {"done", "cancelled"}
    /\ h.entities_task.state \in {"done", "cancelled"}
    /\ h.timed_out <=> "cancelled" \in {h.sentiment_task.state, h.entities_task.state}

\* C22: in the text flow nothing is called before the checks have passed, the
\* calls of Step 1 come before those of Step 2, those before the formatter,
\* and that before the calls of Step 4; while a call of Step 2 exists Step 1
\* is resolved (skipped, returned, failed or timed out), and while a call of
\* Step 4 exists Step 2 is resolved; the response comes after Step 4; and for
\* isiZulu Step 1 translates from zul_Latn to eng_Latn and Step 4 from eng_Latn
\* to zul_Latn.
C22_StepOrder ==
    IsText(request) =>
        /\ Precedes(InStep1, InStep2)
        /\ Precedes(InStep1, InStep3)
        /\ Precedes(InStep1, InStep4)
        /\ Precedes(InStep2, InStep3)
        /\ Precedes(InStep2, InStep4)
        /\ Precedes(InStep3, InStep4)
        /\ (\E i \in DOMAIN h.calls : InStep2(h.calls[i])) => Step1Resolved
        /\ (\E i \in DOMAIN h.calls : InStep4(h.calls[i])) => Step2Resolved
        /\ h.pc = "translate_back" => (Step1Resolved /\ Step2Resolved)
        /\ (Answered /\ h.response.status = 200) =>
              /\ Step1Resolved
              /\ Step2Resolved
              /\ h.translate_back \in {"skipped", "returned", "raised", "timeout"}
        /\ request.language = "isiZulu" =>
              \A i \in DOMAIN h.calls :
                 /\ InStep1(h.calls[i]) =>
                       h.calls[i].source_lang = "zul_Latn" /\ h.calls[i].target_lang = "eng_Latn"
                 /\ InStep4(h.calls[i]) => h.calls[i].target_lang = "zul_Latn"

C22_Witness ==
    /\ IsText(request)
    /\ request.language = "isiZulu"
    /\ Answered
    /\ h.response.status = 200
    /\ [i \in DOMAIN h.calls |-> h.calls[i].op] =
          <<"translate_text", "sdk.translate", "translate_text.return",
            "analyze_sentiment", "sdk.get_sentiments",
            "analyze_entities", "sdk.get_entities",
            "format_analysis_results",
            "translate_text", "sdk.translate", "translate_text.return">>
    /\ h.calls[1].source_lang = "zul_Latn"
    /\ h.calls[9].target_lang = "zul_Latn"

(* claims about requests handled at the same time (SpecConcurrent) *)

\* Step 1, Step 2 and Step 4 of a request handled alone: each wait ends with
\* the provider's answer when it is in time, and with the timeout when it is late
AloneAfterStep1(f, req, ans) ==
    IF f.pc # "translate_in" THEN f
    ELSE IF ans["translate_in"].late
    THEN translate_timed_out(translate_timer_fired(f), req)
    ELSE translate_returned(f, req, ans["translate_in"].data)

AloneAfterStep2(f, req, ans) ==
    IF f.pc # "analyze" THEN f
    ELSE IF \E t \in InFlight(f) : ans[t].late
    THEN LET held == analyze_timer_fired(f)
             one  == IF held.sentiment_task.state = "cancelling"
                     THEN task_cancelled(held, req, "sentiment") ELSE held
         IN  IF one.pc = "analyze_cancel" THEN task_cancelled(one, req, "entities") ELSE one
    ELSE LET one == task_returned(f, req, "sentiment", ans["sentiment"].data)
         IN  IF one.pc = "analyze"
             THEN task_returned(one, req, "entities", ans["entities"].data) ELSE one

AloneAfterStep4(f, req, ans) ==
    IF f.pc # "translate_back" THEN f
    ELSE IF ans["translate_back"].late
    THEN translate_timed_out(translate_timer_fired(f), req)
    ELSE translate_returned(f, req, ans["translate_back"].data)

\* the response the request gets when no other request is in progress
AloneResponse(req, ans) ==
    AloneAfterStep4(
        AloneAfterStep2(
            AloneAfterStep1(analyze_text_begin(req), req, ans),
            req, ans),
        req, ans).response

\* C23: requests handled at the same time are independent: whatever the
\* interleaving, the response of each is the response it gets alone with the
\* same answers of the provider.
C23_Independent ==
    \A i \in Slots :
        hs[i].pc = "done" => hs[i].response = AloneResponse(reqs[i], answers[i])

(* claims about the handlers (Spec), continued *)

\* C24: in the audio flow transcribe_audio is called for "English" and
\* client.transcribe with the speech code "eng", whatever language the caller
\* selected; the audio flow has no translation into English; and the
\* transcription_text of the response is the transcript client.transcribe
\* returned, not a translation of it.
C24_TranscribeInEnglish ==
    IsAudio(request) =>
        /\ \A i \in Indices(h, "transcribe_audio") : h.calls[i].source_lang = "English"
        /\ \A i \in Indices(h, "sdk.transcribe") : h.calls[i].source_lang = "eng"
        /\ \A i \in Indices(h, "translate_text") : h.calls[i].source_lang = "eng_Latn"
        /\ Succeeded =>
              /\ CountOp(h, "sdk.transcribe") = 1
              /\ h.response.transcription_text = FirstEntry(h, "sdk.transcribe.returned").text

C24_Witness ==
    /\ IsAudio(request)
    /\ request.language = "isiZulu"
    /\ STT_LANGUAGE_MAP["isiZulu"] = "zul"
    /\ Succeeded
    /\ FirstEntry(h, "sdk.transcribe").source_lang = "eng"
    /\ h.translate_back = "returned"
    /\ h.response.analysis = <<"translated">>
    /\ h.response.transcription_text = <<"The maize is dry">>

\* ids made from os.urandom by the handlers and by transcribe_audio
GeneratedIds == {"analysis_<urandom>", "audio_<urandom>", "trans_<urandom>"}

EntitiesAnswered ==
    /\ Called("analyze_entities")
    /\ g.pc = "done"
    /\ g.events # <<>>
    /\ g.events[Len(g.events)].ev = "returned"

\* C26: when client.get_entities returns, analyze_entities returns a present
\* result, with an empty entity sequence and count 0 when the payload holds no
\* entities; and in every present result of analyze_entities the count is the
\* length of the entity sequence.
C26_EmptyIsPresent ==
    /\ EntitiesAnswered =>
          /\ g.outcome.kind = "return"
          /\ g.outcome.value # None
          /\ g.outcome.value.full_data.entities = <<>> =>
                /\ g.outcome.value.entities = <<>>
                /\ g.outcome.value.entity_count = 0
    /\ (Called("analyze_entities") /\ g.pc = "done" /\ g.outcome.value # None) =>
          g.outcome.value.entity_count = Len(g.outcome.value.entities)

C26_Witness ==
    /\ EntitiesAnswered
    /\ g.outcome.value # None
    /\ g.outcome.value.full_data.entities = <<>>
    /\ g.outcome.value.entities = <<>>
    /\ g.outcome.value.entity_count = 0

\* language names other than "English" whose translation code is the English one
EnglishCoded == { l \in DOMAIN LANGUAGE_MAP : l # "English" /\ LANGUAGE_MAP[l] = "eng_Latn" }

\* C27: for a request in Nigerian Pidgin or Portuguese client.translate is
\* never called: Step 1 is skipped (translate_text is not called towards
\* English), the translate_text call of Step 4 returns the analysis text it
\* was given, and the text of the response is the English analysis text.
C27_EnglishCodedNoRemote ==
    (IsAnalysis(request) /\ request.language \in EnglishCoded) =>
        /\ CountOp(h, "sdk.translate") = 0
        /\ \A i \in Indices(h, "translate_text") :
              /\ h.calls[i].source_lang = "eng_Latn"
              /\ h.calls[i].target_lang = "eng_Latn"
              /\ h.calls[i].text = h.analysis_text
        /\ IsText(request) /\ h.pc \notin {"idle", "done"} => h.translate_in = "skipped"
        /\ Succeeded =>
              /\ CountOp(h, "translate_text") = 1
              /\ CountOp(h, "translate_text.return") = 1
              /\ LastEntry(h, "translate_text.return").text = h.analysis_text
              /\ ResponseText = h.analysis_text

C27_Witness ==
    /\ Succeeded
    /\ IsText(request)
    /\ request.language = "Nigerian Pidgin"
    /\ h.translate_in = "skipped"
    /\ h.translate_back = "returned"
    /\ CountOp(h, "sdk.translate") = 0
    /\ CountOp(h, "sdk.get_sentiments") = 1
    /\ ResponseText = h.analysis_text
    /\ h.analysis_text # <<>>

\* the answer to the request is the rejection (status_code, detail)
Rejected(status_code, detail) ==
    /\ Answered
    /\ h.response = HTTPException(status_code, detail)

\* C28: the checks before the try block have a fixed order.  A text request
\* with blank content is answered 400 "Content cannot be empty" whatever its
\* language and whether or not the token is set; a text request with content
\* and an unsupported language, and an audio request with an unsupported
\* language, are answered 400 "Unsupported language" whether or not the token
\* is set; 503 is the answer only to a valid request served without a token.
C28_ValidationPrecedence ==
    (IsAnalysis(request) /\ Answered) =>
        /\ (IsText(request) /\ AllWhitespace(request.content)) =>
              Rejected(400, "Content cannot be empty")
        /\ (IsText(request) /\ ~AllWhitespace(request.content)
                            /\ request.language \notin DOMAIN LANGUAGE_MAP) =>
              Rejected(400, "Unsupported language")
        /\ (IsAudio(request) /\ request.language \notin DOMAIN STT_LANGUAGE_MAP) =>
              Rejected(400, "Unsupported language")
        /\ Rejected(503, "Lelapa.ai API token not configured") => (~Invalid(request) /\ ~token)
        /\ (~Invalid(request) /\ ~token) =>
              Rejected(503, "Lelapa.ai API token not configured")

C28_Witness ==
    /\ ~token
    /\ IsText(request)
    /\ request.content = <<" ">>
    /\ request.language = "Klingon"
    /\ Rejected(400, "Content cannot be empty")

====
